---- MODULE Spec2Model ----
(***************************************************************************)
(* A model of the session layer of proton-api-rs (src/clientv2/session.rs):*)
(* the SRP login flow (login_sequence_1 / login_sequence_2 /               *)
(* validate_server_proof) and the authenticated-call wrapper               *)
(* (wrap_session_request) with its 401 -> refresh -> retry recovery over   *)
(* the shared Arc<RwLock<UserAuth>> credentials cell.                      *)
(*                                                                         *)
(* The specifications share the variables:                                 *)
(*   SpecLogin   : one login attempt against an arbitrary server/transport.*)
(*   Spec        : concurrent wrapped calls and snapshots on one Session.  *)
(*   SpecTotp    : wrapped calls and code submissions on a login outcome.  *)
(*   SpecCancel  : wrapped calls that may be cancelled while suspended.    *)
(*   SpecRefresh : a snapshot and a Session restored from it.              *)
(*   SpecModes   : one Sequence under the blocking and the suspension-     *)
(*                 based driver, on the same raw transport responses.      *)
(*   SpecLazy    : wrapped calls, the others created after call 1.         *)
(*   SpecLive    : one login attempt or wrapped calls, driven to the end.  *)
(*   SpecLogout  : Session::logout and the calls made after it.            *)
(*   SpecPure    : functions applied to inputs drawn from bounded sets.    *)
(***************************************************************************)
EXTENDS Integers, Sequences, FiniteSets, TLC

VARIABLES
    \* ---- login attempt (Session::login) ----
    lpc,        \* position of the attempt in the login flow
    lstate,     \* State { username, password, hv }
    lsrp,       \* LoginState { username, proof, session, hv }, or NoLoginState
    loutcome,   \* Result<SessionType, LoginError> once the attempt has ended
    lsent,      \* requests the attempt handed to the transport, in order
    lresp,      \* responses the transport gave the attempt, in order
    \* ---- Session (Arc<RwLock<UserAuth>>) ----
    user_auth,  \* the Credentials of each cell: uid, access_token, refresh_token
    readers,    \* holders of a read guard on each cell
    writer,     \* holder of the write guard of each cell, or NoOne
    \* ---- wrapped calls (wrap_session_request), one per call id ----
    wpc,        \* position of each call
    wdesc,      \* the request descriptor r of each call
    wdata,      \* the built RequestData of each call (headers attached so far)
    wtmp,       \* fields read so far under the current read guard
    wsent,      \* requests each call handed to the transport, in order
    wresp,      \* responses the transport gave each call, in order
    wresult,    \* Result<R::Output, http::Error> of each call once done
    \* ---- get_refresh_data ----
    spc,        \* position of the snapshot call
    sdata,      \* SessionRefreshData under construction / returned
    \* ---- server side ----
    nextCred,   \* number of auth/refresh responses issued so far
    \* ---- SessionType ----
    login_type, \* the SessionType the login returned
    stype,      \* the SessionType the client holds now
    wvia,       \* the SessionType each call was made through
    \* ---- functions applied to drawn inputs ----
    pin,        \* the function applied and its arguments
    pout,       \* its value
    pdone,      \* whether it has been applied
    \* ---- Session::refresh ----
    rpc,        \* position of the Sequence Session::refresh returned
    rsent,      \* requests it handed to the transport
    rresp,      \* responses the transport gave it
    rresult,    \* Result<Session, http::Error> once it has ended
    \* ---- one Sequence under the two drivers ----
    seqdef,     \* the Sequence run: "login", "wrap" or "refresh"
    raws,       \* the raw responses the transport gives, in order
    brun,       \* what the blocking driver's run of the Sequence produced
    bdone       \* whether the blocking driver has run it

lvars == <<lpc, lstate, lsrp, loutcome, lsent, lresp>>
cvars == <<user_auth, readers, writer>>
wvars == <<wpc, wdesc, wdata, wtmp, wsent, wresp, wresult>>
svars == <<spc, sdata>>
tvars == <<login_type, stype, wvia>>
pvars == <<pin, pout, pdone>>
rvars == <<rpc, rsent, rresp, rresult>>
bvars == <<seqdef, raws, brun, bdone>>
xvars == <<pvars, rvars, bvars>>
mvars == <<lvars, cvars, wvars, svars, nextCred, tvars>>
vars  == <<mvars, xvars>>

----------------------------------------------------------------------------
(* Results and errors *)

Ok(v)  == [ok |-> TRUE,  val |-> v]
Err(e) == [ok |-> FALSE, val |-> e]

None == "none"

\* http::Error values the transport can produce.  An API error carries the
\* HTTP status code and, possibly, human-verification details.
ApiError(code, hv) == [kind |-> "API", http_code |-> code, hv |-> hv]
TransportError     == [kind |-> "Transport", http_code |-> 0, hv |-> None]
DecodeError        == [kind |-> "Decode", http_code |-> 0, hv |-> None]

HVChallenges == {"hvtoken"}

HttpErrors ==
    {ApiError(401, None), ApiError(500, None), TransportError, DecodeError}
    \cup {ApiError(422, h) : h \in HVChallenges}

----------------------------------------------------------------------------
(* Sequence combinators used by the login flow *)

\* Sequence::map(f): f runs on a success value only; an error passes through,
\* converted into the target error type by From (for login: LoginError::Request).
\* The http error is replaced by a generic one when it is wrapped.
LoginErrorRequestOpaque(e) == [le |-> "Request", err |-> TransportError, hv |-> None]

LoginErrorRequest(e) == [le |-> "Request", err |-> e, hv |-> None]

FromHttpError(r) == IF r.ok THEN r ELSE Err(LoginErrorRequest(r.val))

----------------------------------------------------------------------------
(* SRP engine (proton_srp), consumed as an opaque capability *)

Usernames  == {"alice", "bob"}
Passwords  == {"p@ss"}
\* Challenge data (version, salt, modulus, server ephemeral) of an auth-info
\* response; "badmodulus" makes SRPAuth::with_pgp fail, "badephemeral" makes
\* generate_proofs fail.
GoodChallenges == {"ch1", "ch2"}
Challenges     == GoodChallenges \cup {"badmodulus", "badephemeral"}
SrpSessions    == {"srp1", "srp2"}

SRPAuthWithPgp(password, ch) ==
    IF ch = "badmodulus" THEN Err("invalid modulus") ELSE Ok(<<password, ch>>)

GenerateProofs(auth) ==
    IF auth[2] = "badephemeral"
    THEN Err("invalid server ephemeral")
    ELSE Ok([client_ephemeral      |-> <<"A", auth[2]>>,
             client_proof          |-> <<"M1", auth[1], auth[2]>>,
             expected_server_proof |-> <<"M2", auth[1], auth[2]>>])

\* SRPProofB64::compare_server_proof
CompareServerProof(proof, server_proof) ==
    proof.expected_server_proof = server_proof

\* Every server proof a server may send back: the right one for some
\* password and challenge, or garbage.
ServerProofs ==
    {<<"M2", p, c>> : p \in Passwords, c \in GoodChallenges} \cup {<<"M2", "bogus", "bogus">>}

----------------------------------------------------------------------------
(* Credentials *)

\* The credential triple carried by the k-th auth/refresh response the server
\* issues.  Each field is tagged with what it is and the response it comes
\* from.
Cred(k) ==
    [uid           |-> <<"uid", k>>,
     access_token  |-> <<"access", k>>,
     refresh_token |-> <<"refresh", k>>]

\* UserAuth::from_auth_response / UserAuth::from_auth_refresh_response: the
\* three credential fields of the response, and nothing else of it.
UserAuthFromResponse(r) ==
    [uid |-> r.uid, access_token |-> r.access_token, refresh_token |-> r.refresh_token]

\* Session::new: a fresh cell holding the given UserAuth.
SessionNew(user) == [user_auth |-> user]

----------------------------------------------------------------------------
(* Login flow *)

TFAStatuses == {"None", "Totp", "FIDO2", "TotpOrFIDO2"}

HVLoginData == {None, "hvdata"}

\* No proofs computed yet: a value of the shape of SRPProofB64.
NoProof ==
    [client_ephemeral      |-> <<None, None>>,
     client_proof          |-> <<None, None, None>>,
     expected_server_proof |-> <<None, None, None>>]

NoLoginState == [username |-> None, proof |-> NoProof, session |-> None, hv |-> None]
NoState      == [username |-> None, password |-> None, hv |-> None]
\* No outcome yet: the Sequence has not been driven to completion.
NoOutcome    == [ok |-> FALSE, val |-> [le |-> "pending", err |-> None, hv |-> None]]

LoginErrorServerProof        == [le |-> "ServerProof", err |-> None, hv |-> None]
LoginErrorUnsupported2FA(t)  == [le |-> "Unsupported2FA", err |-> t, hv |-> None]
LoginErrorHumanVerification(h) == [le |-> "HumanVerificationRequired", err |-> None, hv |-> h]
LoginErrorSRPProof(s)        == [le |-> "SRPProof", err |-> s, hv |-> None]

Authenticated(session) == [type |-> "Authenticated", session |-> session]
AwaitingTotp(session)  == [type |-> "AwaitingTotp", session |-> session]

\* APIError::try_get_human_verification_details
TryGetHumanVerificationDetails(e) ==
    IF e.hv # None THEN Ok(e.hv) ELSE Err("no human verification details")

validate_server_proof_no_check(proof, auth_response) ==
    LET session == SessionNew(UserAuthFromResponse(auth_response))
    IN  CASE auth_response.tfa = "None"        -> Ok(Authenticated(session))
          [] auth_response.tfa = "Totp"        -> Ok(AwaitingTotp(session))
          [] auth_response.tfa = "FIDO2"       -> Err(LoginErrorUnsupported2FA("FIDO2"))
          [] auth_response.tfa = "TotpOrFIDO2" -> Ok(AwaitingTotp(session))

validate_server_proof_fido_fallback(proof, auth_response) ==
    IF ~CompareServerProof(proof, auth_response.server_proof)
    THEN Err(LoginErrorServerProof)
    ELSE LET session == SessionNew(UserAuthFromResponse(auth_response))
         IN  CASE auth_response.tfa = "None"        -> Ok(Authenticated(session))
               [] auth_response.tfa = "Totp"        -> Ok(AwaitingTotp(session))
               [] auth_response.tfa = "FIDO2"       -> Err(LoginErrorUnsupported2FA("FIDO2"))
               [] auth_response.tfa = "TotpOrFIDO2" -> Err(LoginErrorUnsupported2FA("FIDO2"))

\* The second-factor status is looked at before the server proof.
validate_server_proof_tfa_first(proof, auth_response) ==
    IF auth_response.tfa = "FIDO2"
    THEN Err(LoginErrorUnsupported2FA("FIDO2"))
    ELSE IF ~CompareServerProof(proof, auth_response.server_proof)
    THEN Err(LoginErrorServerProof)
    ELSE LET session == SessionNew(UserAuthFromResponse(auth_response))
         IN  IF auth_response.tfa = "None"
             THEN Ok(Authenticated(session))
             ELSE Ok(AwaitingTotp(session))

validate_server_proof(proof, auth_response) ==
    IF ~CompareServerProof(proof, auth_response.server_proof)
    THEN Err(LoginErrorServerProof)
    ELSE LET tfa_enabled == auth_response.tfa
             user        == UserAuthFromResponse(auth_response)
             session     == SessionNew(user)
         IN  CASE tfa_enabled = "None"        -> Ok(Authenticated(session))
               [] tfa_enabled = "Totp"        -> Ok(AwaitingTotp(session))
               [] tfa_enabled = "FIDO2"       -> Err(LoginErrorUnsupported2FA("FIDO2"))
               [] tfa_enabled = "TotpOrFIDO2" -> Ok(AwaitingTotp(session))

map_human_verification_err(e) ==
    IF /\ e.le = "Request"
       /\ e.err.kind = "API"
       /\ TryGetHumanVerificationDetails(e.err).ok
    THEN LoginErrorHumanVerification(TryGetHumanVerificationDetails(e.err).val)
    ELSE e

\* A failure of the SRP engine is ignored and an empty proof is carried on.
generate_login_state_unchecked(state, auth_info_response) ==
    Ok([username |-> state.username,
        proof    |-> [client_ephemeral |-> None, client_proof |-> None,
                      expected_server_proof |-> None],
        session  |-> auth_info_response.srp_session,
        hv       |-> state.hv])

generate_login_state(state, auth_info_response) ==
    LET srp_auth == SRPAuthWithPgp(state.password, auth_info_response.challenge)
    IN  IF ~srp_auth.ok
        THEN Err(LoginErrorSRPProof(srp_auth.val))
        ELSE LET proof == GenerateProofs(srp_auth.val)
             IN  IF ~proof.ok
                 THEN Err(LoginErrorSRPProof(proof.val))
                 ELSE Ok([username |-> state.username,
                          proof    |-> proof.val,
                          session  |-> auth_info_response.srp_session,
                          hv       |-> state.hv])

\* The closure given to map in login_sequence_2, applied by map to the
\* transport's result: the closure sees success values only.
LoginSequence2Result(login_state, r) ==
    IF r.ok
    THEN LET res == validate_server_proof(login_state.proof, r.val)
         IN  \* .map_err(map_human_verification_err)
             IF res.ok THEN res ELSE Err(map_human_verification_err(res.val))
    ELSE FromHttpError(r)

\* The closure runs on a failed auth-info request too, on default challenge
\* data.
LoginSequence1ResultOnError(st, r) ==
    IF r.ok THEN generate_login_state(st, r.val)
    ELSE generate_login_state(st, [challenge |-> "ch1", srp_session |-> "srp1"])

\* The closure given to map in login_sequence_1, applied likewise.
LoginSequence1Result(st, r) ==
    IF r.ok THEN generate_login_state(st, r.val) ELSE FromHttpError(r)

AuthInfoRequest(username) ==
    [endpoint |-> "auth/v4/info", username |-> username, client_proof |-> None,
     srp_session |-> None, hv |-> None]

\* The SRP session id of the request is not the one of the LoginState.
AuthRequestOtherSession(login_state) ==
    [endpoint     |-> "auth/v4",
     username     |-> login_state.username,
     client_proof |-> login_state.proof.client_proof,
     srp_session  |-> "srp1",
     hv           |-> login_state.hv]

AuthRequest(login_state) ==
    [endpoint     |-> "auth/v4",
     username     |-> login_state.username,
     client_proof |-> login_state.proof.client_proof,
     srp_session  |-> login_state.session,
     hv           |-> login_state.hv]

AuthInfoResponses == [challenge : Challenges, srp_session : SrpSessions]

AuthResponses ==
    [server_proof : ServerProofs, tfa : TFAStatuses,
     uid : {Cred(0).uid}, access_token : {Cred(0).access_token},
     refresh_token : {Cred(0).refresh_token}]

LoginTerminal == {"AUTHENTICATED", "AWAITING_2FA", "FAILED"}

\* A failed attempt starts over instead of ending.
TerminalOfRestart(outcome) ==
    IF ~outcome.ok THEN "INIT"
    ELSE IF outcome.val.type = "Authenticated" THEN "AUTHENTICATED" ELSE "AWAITING_2FA"

TerminalOf(outcome) ==
    IF ~outcome.ok THEN "FAILED"
    ELSE IF outcome.val.type = "Authenticated" THEN "AUTHENTICATED" ELSE "AWAITING_2FA"

\* Session::login driven: State is built and the auth-info request is sent.
LoginStart(username, password, human_verification) ==
    /\ lpc = "INIT"
    /\ lstate' = [username |-> username, password |-> password, hv |-> human_verification]
    /\ lsent' = Append(lsent, AuthInfoRequest(username))
    /\ lpc' = "INFO_REQUESTED"
    /\ UNCHANGED <<lsrp, loutcome, lresp>>

\* The transport answers the auth-info request; on success the SRP proofs are
\* computed locally (generate_login_state).
AuthInfoRespond(r) ==
    /\ lpc = "INFO_REQUESTED"
    /\ lresp' = Append(lresp, r)
    /\ LET res == LoginSequence1Result(lstate, r)
       IN  IF res.ok
           THEN /\ lsrp' = res.val
                /\ lpc' = "PROOF_COMPUTED"
                /\ UNCHANGED loutcome
           ELSE /\ loutcome' = res
                /\ lpc' = "FAILED"
                /\ UNCHANGED lsrp
    /\ UNCHANGED <<lstate, lsent>>

\* .state(login_sequence_2): the proof-submission request is built from the
\* LoginState and sent.
SubmitProof ==
    /\ lpc = "PROOF_COMPUTED"
    /\ lsent' = Append(lsent, AuthRequest(lsrp))
    /\ lpc' = "PROOF_SUBMITTED"
    /\ UNCHANGED <<lstate, lsrp, loutcome, lresp>>

\* The transport answers the proof submission.
AuthRespond(r) ==
    /\ lpc = "PROOF_SUBMITTED"
    /\ lresp' = Append(lresp, r)
    /\ loutcome' = LoginSequence2Result(lsrp, r)
    /\ lpc' = TerminalOf(loutcome')
    /\ UNCHANGED <<lstate, lsrp, lsent>>

----------------------------------------------------------------------------
(* Session: the credentials cell and its reader/writer lock *)

MaxCalls == 2

Calls == 1..MaxCalls
NoOne == 0
Snap  == MaxCalls + 1      \* lock-holder id of the get_refresh_data caller

\* The handles through which the cell is reached: every wrapped call and the
\* snapshot are made through a clone of the Session of their own.
Handles == Calls \cup {Snap}

\* Cloning a Session copies the UserAuth into a cell of the clone's own.
CellOfDeepCopy(h) == h

\* The cell behind a handle. Session::new allocates one
\* Arc<RwLock<UserAuth>>; #[derive(Clone)] on Session clones the Arc, so
\* every handle points at that one allocation.
CellOf(h) == 1

Cells == {CellOf(h) : h \in Handles}

\* write() is granted although read guards are held.
CanWriteOverReaders(c) == writer[c] = NoOne

\* read() is granted whoever holds the lock.
CanReadAlways(c) == TRUE

\* parking_lot::RwLock: read() is granted while no writer holds the lock,
\* write() while nobody holds it.
CanRead(c)  == writer[c] = NoOne
CanWrite(c) == writer[c] = NoOne /\ readers[c] = {}

\* The request descriptor (RequestDesc) each call is made with: a request
\* without a body (GetUserKeysRequest) and one with a body
\* (MarkMessagesReadRequest) both occur among the calls.
DescOf(w) ==
    IF w % 2 = 1
    THEN [method |-> "GET",  path |-> "core/v4/keys",          body |-> None]
    ELSE [method |-> "PUT",  path |-> "mail/v4/messages/read", body |-> "ids"]

NoDesc == [method |-> None, path |-> None, body |-> None]
NoHeaders == [uid |-> None, authorization |-> None]
NoData == [method |-> None, path |-> None, body |-> None, headers |-> NoHeaders]

\* RequestDesc::build: method, path and body of the descriptor, no headers.
Build(r) == [method |-> r.method, path |-> r.path, body |-> r.body, headers |-> NoHeaders]

\* RequestData::header(X_PM_UID_HEADER, v): sets (replaces) that header.
HeaderUid(data, v) == [data EXCEPT !.headers.uid = v]

\* RequestData::bearer_token(t): sets (replaces) the authorization header.
BearerToken(data, t) == [data EXCEPT !.headers.authorization = <<"Bearer", t>>]

\* AuthRefreshRequest::new(uid, token).to_request()
AuthRefreshRequest(uid, token) ==
    [method |-> "POST", path |-> "auth/v4/refresh",
     body |-> [uid |-> uid, refresh_token |-> token], headers |-> NoHeaders]

Sent(kind, data) == [kind |-> kind, data |-> data]

\* What the transport may answer to a wrapped request.
Vals == {"v1", "v2"}
\* The handler of wrap_session_request tells three kinds of error apart: an
\* API error with code 401, an API error with another code, and an error that
\* is no API error; one of each is enough.
CallErrors == {ApiError(401, None), ApiError(500, None), TransportError}
CallResults == {Ok(v) : v \in Vals} \cup {Err(e) : e \in CallErrors}

\* What the transport may answer to a refresh request: the next credential
\* triple of the server, or an error.
RefreshResults == {Ok(Cred(nextCred))} \cup {Err(e) : e \in CallErrors}

Last(q) == q[Len(q)]

NoTmp == [uid |-> None]
\* No result yet: the wrapped call is still under way.
NoResult == [ok |-> FALSE, val |-> [kind |-> "pending", http_code |-> 0, hv |-> None]]

\* Every API error starts the refresh, whatever its code.
IsExpiredAnyCode(e) == e.kind = "API"

\* The test of the chain_err handler: a structured API error with HTTP code
\* 401 starts the refresh; anything else is re-raised.
IsExpired(e) == e.kind = "API" /\ e.http_code = 401

----------------------------------------------------------------------------
(* SessionType: what the holder of a login outcome may call *)

SessionTypes == {"Authenticated", "AwaitingTotp"}

Codes == {"000000"}

\* TOTPRequest::new(code): the descriptor of the code submission.
TOTPRequest(code) == [method |-> "POST", path |-> "auth/v4/2fa", body |-> code]

IsTotp(r) == r.path = "auth/v4/2fa"

\* The pending handle exposes every call of the Session it wraps.
TotpSessionExposesAll(r) == TRUE

\* TotpSession, the handle inside SessionType::AwaitingTotp: the code
\* submission is the one call it offers.
TotpSessionExposes(r) == IsTotp(r)

\* impl Session: every method is pub and takes &self, submit_totp included;
\* none looks at how the Session was obtained.
SessionExposes(r) == TRUE

\* The calls the client can make with what it holds.
CanCall(r) ==
    IF stype = "AwaitingTotp" THEN TotpSessionExposes(r) ELSE SessionExposes(r)

\* A code submission promotes the handle however it ended.
PromoteAlways(t, r, res) == IF IsTotp(r) THEN "Authenticated" ELSE t

\* What the client holds after a call with descriptor r made through a
\* handle of type t has ended with result res: an accepted code submission
\* turns the pending handle into the Session; any other call, and a failed
\* submission, leave it what it was.
Promote(t, r, res) ==
    IF t = "AwaitingTotp" /\ IsTotp(r) /\ res.ok THEN "Authenticated" ELSE t

----------------------------------------------------------------------------
(* wrap_session_request *)

\* wrap_session_request is called when the Sequence is created: the request
\* is built from the credentials the cell holds then.
CreatedDataEager(w, r) ==
    BearerToken(HeaderUid(Build(r), user_auth[CellOf(w)].uid),
                user_auth[CellOf(w)].access_token)

\* SequenceFromState::new(self, move |s| wrap_session_request(s, r)): the
\* closure is stored, not called, so no request data exists yet.
CreatedData(w, r) == NoData

\* Session::wrap_request2: the Sequence is created; nothing is read or sent.
WrapCreate(w, r) ==
    /\ wpc[w] = "idle"
    /\ CanCall(r)
    /\ wpc' = [wpc EXCEPT ![w] = "created"]
    /\ wdesc' = [wdesc EXCEPT ![w] = r]
    /\ wdata' = [wdata EXCEPT ![w] = CreatedData(w, r)]
    /\ wvia' = [wvia EXCEPT ![w] = stype]
    /\ UNCHANGED <<wtmp, wsent, wresp, wresult, cvars, svars, lvars, nextCred,
                   login_type, stype, xvars>>

\* The Sequence is driven: the read guard is taken, the request is built and
\* the uid header attached: r.build().header(X_PM_UID_HEADER, borrow.uid)
WrapBuildUid(w) ==
    /\ wpc[w] = "created"
    /\ CanRead(CellOf(w))
    /\ readers' = [readers EXCEPT ![CellOf(w)] = @ \cup {w}]
    /\ wdata' = [wdata EXCEPT ![w] = HeaderUid(Build(wdesc[w]), user_auth[CellOf(w)].uid)]
    /\ wpc' = [wpc EXCEPT ![w] = "build_token"]
    /\ UNCHANGED <<wdesc, wtmp, wsent, wresp, wresult, user_auth, writer, svars, lvars, nextCred, tvars, xvars>>

\* The read guard outlives its block: it is still held when the request is
\* handed to the transport.
DropBorrowLate(w) == readers[CellOf(w)]

\* The end of the block `{ let borrow = session.user_auth.read(); ... }`:
\* borrow is dropped, the read guard released.
DropBorrow(w) == readers[CellOf(w)] \ {w}

\* .bearer_token(borrow.access_token); the guard is dropped and the original
\* request (a clone of data) is handed to the transport.
WrapBuildTokenSend(w) ==
    /\ wpc[w] = "build_token"
    /\ LET data == BearerToken(wdata[w], user_auth[CellOf(w)].access_token)
       IN  /\ wdata' = [wdata EXCEPT ![w] = data]
           /\ wsent' = [wsent EXCEPT ![w] = Append(@, Sent("original", data))]
    /\ readers' = [readers EXCEPT ![CellOf(w)] = DropBorrow(w)]
    /\ wpc' = [wpc EXCEPT ![w] = "sent"]
    /\ UNCHANGED <<wdesc, wtmp, wresp, wresult, user_auth, writer, svars, lvars, nextCred, tvars, xvars>>

\* Where the call goes on the answer to its original request: a success is the
\* result; the chain_err handler turns a 401 API error into the refresh
\* sub-sequence and re-raises every other error.
AfterOriginal(r) ==
    IF r.ok THEN "done"
    ELSE IF IsExpired(r.val) THEN "expired" ELSE "done"

\* Session::logout: the descriptor it wraps. LogoutRequest is declared in
\* requests/auth.rs; session.rs shows only that it is a Request whose Output
\* is (), so the method and path here stand for "the logout endpoint".
LogoutRequest == [method |-> "DELETE", path |-> "auth/v4", body |-> None]

IsLogout(r) == r.path = "auth/v4" /\ r.method = "DELETE"

\* Credentials no response ever carried: a cell that was cleared.
Cleared == [uid |-> <<None, 0>>, access_token |-> <<None, 0>>, refresh_token |-> <<None, 0>>]

\* A successful logout clears the credentials of the Session.
CellAfterOriginalCleared(w, r) ==
    IF IsLogout(wdesc[w]) /\ r.ok
    THEN [user_auth EXCEPT ![CellOf(w)] = Cleared]
    ELSE user_auth

\* The cell once the original request is answered: wrap_session_request has
\* no code on that path that touches session.user_auth, whatever the
\* descriptor (Session::logout is wrap_request2(LogoutRequest {})).
CellAfterOriginal(w, r) == user_auth

WrapRespond(w, r) ==
    /\ wpc[w] = "sent"
    /\ wresp' = [wresp EXCEPT ![w] = Append(@, r)]
    /\ wpc' = [wpc EXCEPT ![w] = AfterOriginal(r)]
    /\ wresult' = [wresult EXCEPT ![w] = IF AfterOriginal(r) = "done" THEN r ELSE @]
    /\ stype' = IF AfterOriginal(r) = "done" THEN Promote(stype, wdesc[w], r) ELSE stype
    /\ user_auth' = CellAfterOriginal(w, r)
    /\ UNCHANGED <<wdesc, wdata, wtmp, wsent, readers, writer, svars, lvars, nextCred,
                   login_type, wvia, xvars>>

\* The handler takes the read guard and reads borrow.uid for the refresh
\* request.
WrapRefreshUid(w) ==
    /\ wpc[w] = "expired"
    /\ CanRead(CellOf(w))
    /\ readers' = [readers EXCEPT ![CellOf(w)] = @ \cup {w}]
    /\ wtmp' = [wtmp EXCEPT ![w] = [uid |-> user_auth[CellOf(w)].uid]]
    /\ wpc' = [wpc EXCEPT ![w] = "refresh_token"]
    /\ UNCHANGED <<wdesc, wdata, wsent, wresp, wresult, user_auth, writer, svars, lvars, nextCred, tvars, xvars>>

\* The refresh token that was issued together with the access token the
\* call sent.
BorrowRefreshTokenOfSent(w) == Cred(wdata[w].headers.authorization[2][2]).refresh_token

\* borrow.refresh_token.expose_secret() in the handler: the refresh token in
\* the cell now.
BorrowRefreshToken(w) == user_auth[CellOf(w)].refresh_token

\* borrow.refresh_token; the guard is dropped and the refresh request is
\* handed to the transport.
WrapRefreshTokenSend(w) ==
    /\ wpc[w] = "refresh_token"
    /\ wsent' = [wsent EXCEPT ![w] =
                    Append(@, Sent("refresh",
                                   AuthRefreshRequest(wtmp[w].uid, BorrowRefreshToken(w))))]
    /\ readers' = [readers EXCEPT ![CellOf(w)] = DropBorrow(w)]
    /\ wpc' = [wpc EXCEPT ![w] = "refreshing"]
    /\ UNCHANGED <<wdesc, wdata, wtmp, wresp, wresult, user_auth, writer, svars, lvars, nextCred, tvars, xvars>>

\* A failed refresh sends the call back to the handler, which refreshes again.
AfterRefreshAgain(r) == IF r.ok THEN "write_wait" ELSE "expired"

\* The retry is sent straight after the refresh response, without the write.
AfterRefreshSkipWrite(r) == IF r.ok THEN "retry_build" ELSE "done"

\* The chain closure runs on a failed refresh too.
AfterRefreshWriteAlways(r) == "write_wait"

\* Where the call goes on the answer to its refresh request: chain runs its
\* closure on a success only; a failed refresh is the result of the call.
AfterRefresh(r) == IF r.ok THEN "write_wait" ELSE "done"

WrapRefreshRespond(w, r) ==
    /\ wpc[w] = "refreshing"
    /\ wresp' = [wresp EXCEPT ![w] = Append(@, r)]
    /\ wpc' = [wpc EXCEPT ![w] = AfterRefresh(r)]
    /\ wresult' = [wresult EXCEPT ![w] = IF AfterRefresh(r) = "done" THEN r ELSE @]
    /\ nextCred' = IF r.ok THEN nextCred + 1 ELSE nextCred
    /\ stype' = IF AfterRefresh(r) = "done" THEN Promote(stype, wdesc[w], r) ELSE stype
    /\ UNCHANGED <<wdesc, wdata, wtmp, wsent, cvars, svars, lvars, login_type, wvia, xvars>>

\* The write stores the new access token only and keeps the rest of the cell.
RefreshedAuthPartial(w) ==
    [user_auth[CellOf(w)] EXCEPT !.access_token = Last(wresp[w]).val.access_token]

\* The write keeps the cell when the cell holds credentials issued later than
\* those of this call's refresh response.
RefreshedAuthNewest(w) ==
    IF user_auth[CellOf(w)].uid[2] > Last(wresp[w]).val.uid[2]
    THEN user_auth[CellOf(w)]
    ELSE UserAuthFromResponse(Last(wresp[w]).val)

\* The value the write stores: the refresh response of this call.
RefreshedAuth(w) == UserAuthFromResponse(Last(wresp[w]).val)

\* The write guard is taken and the cell replaced:
\* *writer = UserAuth::from_auth_refresh_response(resp)
WrapWrite(w) ==
    /\ wpc[w] = "write_wait"
    /\ CanWrite(CellOf(w))
    /\ writer' = [writer EXCEPT ![CellOf(w)] = w]
    /\ user_auth' = [user_auth EXCEPT ![CellOf(w)] = RefreshedAuth(w)]
    /\ wpc' = [wpc EXCEPT ![w] = "retry_build"]
    /\ UNCHANGED <<wdesc, wdata, wtmp, wsent, wresp, wresult, readers, svars, lvars, nextCred, tvars, xvars>>

\* The retry re-sends the data of the original request as it was built.
RetryDataStale(w) == wdata[w]

\* The request the retry sends: the data of the original request with the
\* uid header and the bearer token set from the cell under the write guard.
RetryData(w) ==
    BearerToken(HeaderUid(wdata[w], user_auth[CellOf(w)].uid), user_auth[CellOf(w)].access_token)

\* data.header(..writer.uid).bearer_token(..writer.access_token); the write
\* guard is dropped and the retry is handed to the transport.
WrapRetrySend(w) ==
    /\ wpc[w] = "retry_build"
    /\ wdata' = [wdata EXCEPT ![w] = RetryData(w)]
    /\ wsent' = [wsent EXCEPT ![w] = Append(@, Sent("retry", RetryData(w)))]
    /\ writer' = [writer EXCEPT ![CellOf(w)] = NoOne]
    /\ wpc' = [wpc EXCEPT ![w] = "retrying"]
    /\ UNCHANGED <<wdesc, wtmp, wresp, wresult, user_auth, readers, svars, lvars, nextCred, tvars, xvars>>

\* The retried request is wrapped like the original one: a 401 on it enters
\* the handler again.
AfterRetryCascade(r) ==
    IF ~r.ok /\ r.val.kind = "API" /\ r.val.http_code = 401 THEN "expired" ELSE "done"

\* The retry is discarded and the 401 of the original request is returned.
RetryResultOriginal(w, r) == wresp[w][1]

\* Where the call goes on the answer to its retried request: the chain closure
\* returns a bare OwnedRequest, with no handler attached, so the call ends.
AfterRetry(r) == "done"

\* The result of the call then: that answer, success or error.
RetryResult(w, r) == r

WrapRetryRespond(w, r) ==
    /\ wpc[w] = "retrying"
    /\ wresp' = [wresp EXCEPT ![w] = Append(@, r)]
    /\ wresult' = [wresult EXCEPT ![w] = IF AfterRetry(r) = "done" THEN RetryResult(w, r) ELSE @]
    /\ wpc' = [wpc EXCEPT ![w] = AfterRetry(r)]
    /\ stype' = IF AfterRetry(r) = "done"
                THEN Promote(stype, wdesc[w], RetryResult(w, r)) ELSE stype
    /\ UNCHANGED <<wdesc, wdata, wtmp, wsent, cvars, svars, lvars, nextCred, login_type, wvia, xvars>>

----------------------------------------------------------------------------
(* Cancellation of a wrapped call *)

\* The positions at which a call is suspended on a transport call.
Suspended == {"sent", "refreshing", "retrying"}

\* The Sequence of a suspended call is dropped: its continuation (the
\* chain_err handler, the chain closure) is discarded with it. The request
\* it has issued stays with the transport.
WrapCancel(w) ==
    /\ wpc[w] \in Suspended
    /\ wpc' = [wpc EXCEPT ![w] = "cancelled"]
    /\ UNCHANGED <<wdesc, wdata, wtmp, wsent, wresp, wresult, cvars, svars, lvars, nextCred,
                   tvars, xvars>>

\* The answer to a refresh request that arrives after the cancellation is
\* still given to the chain closure.
AfterCancelledResume(w, r) ==
    IF Last(wsent[w]).kind = "refresh" /\ r.ok THEN "write_wait" ELSE "cancelled"

\* Where a cancelled call goes when the answer to its outstanding request
\* arrives: nowhere, there being no continuation to give the answer to.
AfterCancelled(w, r) == "cancelled"

\* What the transport may answer to the request call w has outstanding.
ResultsFor(w) ==
    IF Len(wsent[w]) = 0 THEN {}
    ELSE IF Last(wsent[w]).kind = "refresh" THEN RefreshResults ELSE CallResults

\* The transport completes the request of a cancelled call in the background;
\* a refresh the server has granted has issued new credentials.
WrapLateRespond(w, r) ==
    /\ wpc[w] = "cancelled"
    /\ Len(wresp[w]) < Len(wsent[w])
    /\ wresp' = [wresp EXCEPT ![w] = Append(@, r)]
    /\ wpc' = [wpc EXCEPT ![w] = AfterCancelled(w, r)]
    /\ nextCred' = IF Last(wsent[w]).kind = "refresh" /\ r.ok THEN nextCred + 1 ELSE nextCred
    /\ UNCHANGED <<wdesc, wdata, wtmp, wsent, wresult, cvars, svars, lvars, tvars, xvars>>

----------------------------------------------------------------------------
(* Session::get_refresh_data *)

NoSnapshot == [user_uid |-> None, token |-> None]

\* self.user_auth.read(); user_uid: reader.uid.clone()
SnapUid ==
    /\ spc = "idle"
    /\ CanRead(CellOf(Snap))
    /\ readers' = [readers EXCEPT ![CellOf(Snap)] = @ \cup {Snap}]
    /\ sdata' = [sdata EXCEPT !.user_uid = user_auth[CellOf(Snap)].uid]
    /\ spc' = "token"
    /\ UNCHANGED <<user_auth, writer, wvars, lvars, nextCred, tvars, xvars>>

\* The snapshot returns the access token in place of the refresh token.
SnapTokenAccess ==
    /\ spc = "token"
    /\ sdata' = [sdata EXCEPT !.token = user_auth[CellOf(Snap)].access_token]
    /\ readers' = [readers EXCEPT ![CellOf(Snap)] = @ \ {Snap}]
    /\ spc' = "done"
    /\ UNCHANGED <<user_auth, writer, wvars, lvars, nextCred, tvars, xvars>>

\* token: reader.refresh_token.clone(); the guard is dropped on return.
SnapToken ==
    /\ spc = "token"
    /\ sdata' = [sdata EXCEPT !.token = user_auth[CellOf(Snap)].refresh_token]
    /\ readers' = [readers EXCEPT ![CellOf(Snap)] = @ \ {Snap}]
    /\ spc' = "done"
    /\ UNCHANGED <<user_auth, writer, wvars, lvars, nextCred, tvars, xvars>>

----------------------------------------------------------------------------
(* Session::refresh *)

\* The new Session is put into the cell of the Session the data came from.
ArcNewReused == CellOf(Snap)

\* Arc::new in Session::new: an allocation no handle points to yet.
ArcNew == Cardinality(DOMAIN user_auth) + 1

\* Session::refresh(user_uid, token) driven: the request
\* AuthRefreshRequest::new(user_uid, token).to_request() is handed to the
\* transport. The pair is that of a SessionRefreshData kept by the client.
RefreshStart(d) ==
    /\ rpc = "idle"
    /\ rsent' = Append(rsent, AuthRefreshRequest(d.user_uid, d.token))
    /\ rpc' = "sent"
    /\ UNCHANGED <<rresp, rresult, mvars, pvars, bvars>>

\* The transport answers; on success the map closure builds
\* Session::new(UserAuth::from_auth_refresh_response(r)); an error is the
\* result.
RefreshRespond(r) ==
    /\ rpc = "sent"
    /\ rresp' = Append(rresp, r)
    /\ rpc' = "done"
    /\ nextCred' = IF r.ok THEN nextCred + 1 ELSE nextCred
    /\ IF r.ok
       THEN LET cell == ArcNew
            IN  /\ user_auth' = (cell :> UserAuthFromResponse(r.val)) @@ user_auth
                /\ readers' = (cell :> {}) @@ readers
                /\ writer' = (cell :> NoOne) @@ writer
                /\ rresult' = Ok([cell |-> cell])
       ELSE /\ rresult' = r
            /\ UNCHANGED cvars
    /\ UNCHANGED <<rsent, lvars, wvars, svars, tvars, pvars, bvars>>

----------------------------------------------------------------------------
(* Strings *)

\* A string is the sequence of its pieces: a literal of the source is one
\* piece, and a string given by a caller is a sequence of characters.
MaxLen == 3
Chars == {"a", "@", "&", "/"}
Strings == UNION {[1..n -> Chars] : n \in 0..MaxLen}

\* format!("<lit>{}", arg): the literal followed by the Display of arg.
Format(lit, arg) == <<lit>> \o arg

----------------------------------------------------------------------------
(* requests/keys.rs: the key request descriptors *)

\* AddressId(pub String) and its Display: self.0.fmt(f)
AddressId(str) == <<str>>
AddressIdDisplay(id) == id[1]

\* GetUserKeysRequest::build
GetUserKeysRequestBuild ==
    [method |-> "GET", url |-> <<"core/v4/keys">>]

\* GetAddressKeysRequest::build
GetAddressKeysRequestBuild(address_id) ==
    [method |-> "GET", url |-> Format("core/v4/keys/address/", AddressIdDisplay(address_id))]

\* Percent-encoding of the characters that are reserved in a query string.
Encoded(str) ==
    [i \in 1..Len(str) |->
        CASE str[i] = "@" -> "%40"
          [] str[i] = "&" -> "%26"
          [] str[i] = "/" -> "%2F"
          [] OTHER        -> str[i]]

\* The email is percent-encoded before it is put into the query string.
GetPublicKeysRequestBuildEncoded(email) ==
    [method |-> "GET", url |-> Format("core/v4/keys?Email=", Encoded(email))]

\* GetPublicKeysRequest::build
GetPublicKeysRequestBuild(email) ==
    [method |-> "GET", url |-> Format("core/v4/keys?Email=", email)]

\* GetAllKeysRequest::build
GetAllKeysRequestBuild ==
    [method |-> "GET", url |-> <<"core/v4/keys/all">>]

KeyRequests ==
    {[fn |-> "GetUserKeysRequest", arg |-> <<>>], [fn |-> "GetAllKeysRequest", arg |-> <<>>]}
    \cup {[fn |-> f, arg |-> str] : f \in {"GetAddressKeysRequest", "GetPublicKeysRequest"},
                                    str \in Strings}

\* RequestDesc::build of the key request descriptor r.
BuildKeyRequest(r) ==
    CASE r.fn = "GetUserKeysRequest"    -> GetUserKeysRequestBuild
      [] r.fn = "GetAddressKeysRequest" -> GetAddressKeysRequestBuild(AddressId(r.arg))
      [] r.fn = "GetPublicKeysRequest"  -> GetPublicKeysRequestBuild(r.arg)
      [] r.fn = "GetAllKeysRequest"     -> GetAllKeysRequestBuild

ApplyBuildKeyRequest ==
    /\ pin.fn \in {"GetUserKeysRequest", "GetAddressKeysRequest",
                   "GetPublicKeysRequest", "GetAllKeysRequest"}
    /\ ~pdone
    /\ pout' = BuildKeyRequest(pin)
    /\ pdone' = TRUE
    /\ UNCHANGED <<pin, mvars, rvars, bvars>>

----------------------------------------------------------------------------
(* SessionRefreshData: PartialEq *)

UserUids == {"uid1", "uid2"}
Tokens == {"tok1", "tok2"}
SessionRefreshDatas == [user_uid : UserUids, token : Tokens]

\* Two snapshots of one user are equal whatever their tokens.
SessionRefreshDataEqUidOnly(self, other) == self.user_uid = other.user_uid

\* impl PartialEq for SessionRefreshData: eq compares the exposed user_uid
\* and the exposed token.
SessionRefreshDataEq(self, other) ==
    self.user_uid = other.user_uid /\ self.token = other.token

\* eq applied to every pair out of three snapshots a, b, c.
ApplyEq ==
    /\ pin.fn = "eq"
    /\ ~pdone
    /\ pout' = [aa |-> SessionRefreshDataEq(pin.a, pin.a),
                ab |-> SessionRefreshDataEq(pin.a, pin.b),
                ba |-> SessionRefreshDataEq(pin.b, pin.a),
                bc |-> SessionRefreshDataEq(pin.b, pin.c),
                ac |-> SessionRefreshDataEq(pin.a, pin.c)]
    /\ pdone' = TRUE
    /\ UNCHANGED <<pin, mvars, rvars, bvars>>

----------------------------------------------------------------------------
(* domain/message.rs and requests/messages.rs: the message filter and the
   list-messages request *)

\* Option<T>: None is the empty sequence, Some(v) the sequence of v alone.
OptNone == <<>>
Some(v) == <<v>>
IsSome(o) == Len(o) = 1
Unwrap(o) == o[1]

Min(a, b) == IF a <= b THEN a ELSE b

\* Display of an unsigned integer: its decimal digits, most significant
\* first, no sign and no leading zero.
DigitChars == <<"0", "1", "2", "3", "4", "5", "6", "7", "8", "9">>
RECURSIVE U32Display(_)
U32Display(n) ==
    IF n < 10 THEN <<DigitChars[n + 1]>>
    ELSE U32Display(n \div 10) \o <<DigitChars[(n % 10) + 1]>>

\* The u32 values functions are applied to: the least, values around the
\* API maximum of the page size, and the largest the checker's integers
\* hold (u32::MAX itself is beyond them).
U32Samples == {0, 1, 149, 150, 151, 65536, 2147483647}

FilterStrings == {<<>>, <<"a">>, <<"a", "&">>}
Booleans == {"False", "True"}

\* struct MessageFilter
MessageFilters ==
    [label_id   : {OptNone} \cup {Some(s) : s \in FilterStrings},
     page       : {OptNone, Some(0), Some(12)},
     page_size  : {OptNone, Some(0), Some(150), Some(200)},
     desc       : {OptNone} \cup {Some(b) : b \in Booleans},
     end_id     : {OptNone, Some(<<"a">>)},
     subject    : {OptNone, Some(<<"a">>)},
     address_id : {OptNone, Some(<<"a">>)}]

\* The API maximum of the page size.
MaxPageSize == 150

\* The size is stored as given.
with_page_size_unclamped(self, size) == [self EXCEPT !.page_size = Some(size)]

\* MessageFilter::with_page_size
with_page_size(self, size) == [self EXCEPT !.page_size = Some(Min(size, MaxPageSize))]

\* [String]::join(sep)
RECURSIVE Join(_, _)
Join(parts, sep) ==
    IF Len(parts) = 0 THEN <<>>
    ELSE IF Len(parts) = 1 THEN parts[1]
    ELSE parts[1] \o <<sep>> \o Join(Tail(parts), sep)

\* Vec::push when the condition holds.
PushIf(cond, vec, part) == IF cond THEN Append(vec, part) ELSE vec

\* RequestData::new(http::Method::Get, path) of the parts pushed.
MessagesRequestOf(query_parts) ==
    [method |-> "GET",
     url    |-> IF Len(query_parts) = 0
                THEN <<"mail/v4/messages">>
                ELSE Format("mail/v4/messages?", Join(query_parts, "&"))]

\* Desc carries the value of the flag: Desc=0 for Boolean::False.
GetMessagesRequestBuildDescValue(filter) ==
    LET q1 == PushIf(IsSome(filter.label_id), <<>>,
                     Format("LabelID=", IF IsSome(filter.label_id) THEN Unwrap(filter.label_id) ELSE <<>>))
        q2 == PushIf(IsSome(filter.page), q1,
                     Format("Page=", IF IsSome(filter.page) THEN U32Display(Unwrap(filter.page)) ELSE <<>>))
        q3 == PushIf(IsSome(filter.page_size), q2,
                     Format("PageSize=", IF IsSome(filter.page_size) THEN U32Display(Unwrap(filter.page_size)) ELSE <<>>))
        q4 == PushIf(IsSome(filter.end_id), q3,
                     Format("EndID=", IF IsSome(filter.end_id) THEN Unwrap(filter.end_id) ELSE <<>>))
        q5 == PushIf(IsSome(filter.desc), q4,
                     IF filter.desc = Some("False") THEN <<"Desc=0">> ELSE <<"Desc=1">>)
    IN  MessagesRequestOf(q5)

\* GetMessagesRequest::build
GetMessagesRequestBuild(filter) ==
    LET q1 == PushIf(IsSome(filter.label_id), <<>>,
                     Format("LabelID=", IF IsSome(filter.label_id) THEN Unwrap(filter.label_id) ELSE <<>>))
        q2 == PushIf(IsSome(filter.page), q1,
                     Format("Page=", IF IsSome(filter.page) THEN U32Display(Unwrap(filter.page)) ELSE <<>>))
        q3 == PushIf(IsSome(filter.page_size), q2,
                     Format("PageSize=", IF IsSome(filter.page_size) THEN U32Display(Unwrap(filter.page_size)) ELSE <<>>))
        q4 == PushIf(IsSome(filter.end_id), q3,
                     Format("EndID=", IF IsSome(filter.end_id) THEN Unwrap(filter.end_id) ELSE <<>>))
        q5 == PushIf(IsSome(filter.desc), q4, <<"Desc=1">>)
    IN  MessagesRequestOf(q5)

\* The filters with_page_size is applied to, and the list-messages requests
\* that are built.
PageSizeInputs ==
    [fn : {"with_page_size"}, self : MessageFilters, size : U32Samples]
MessagesRequests == [fn : {"GetMessagesRequest"}, filter : MessageFilters]

\* filter.with_page_size(size), and the request built from the result.
ApplyWithPageSize ==
    /\ pin.fn = "with_page_size"
    /\ ~pdone
    /\ pout' = [filter  |-> with_page_size(pin.self, pin.size),
                request |-> GetMessagesRequestBuild(with_page_size(pin.self, pin.size))]
    /\ pdone' = TRUE
    /\ UNCHANGED <<pin, mvars, rvars, bvars>>

\* GetMessagesRequest::new(filter).build()
ApplyBuildMessagesRequest ==
    /\ pin.fn = "GetMessagesRequest"
    /\ ~pdone
    /\ pout' = GetMessagesRequestBuild(pin.filter)
    /\ pdone' = TRUE
    /\ UNCHANGED <<pin, mvars, rvars, bvars>>

----------------------------------------------------------------------------

(* Sequence::chain *)

\* What a Sequence yields when it is run: a success value or an error. A
\* step function maps the success value of the step before it to the
\* Sequence to run next.
SeqResults == {Ok(v) : v \in Vals} \cup {Err(TransportError)}
StepFunctions == [Vals -> SeqResults]

\* chain yields the value of the sequence before it when the next one
\* succeeds.
ChainKeepFirst(seq, f) ==
    IF seq.ok THEN (IF f[seq.val].ok THEN seq ELSE f[seq.val]) ELSE seq

\* seq.chain(f): on a success of seq the Sequence f(value) is run and its
\* result is the result; an error of seq is the result and f is not run.
Chain(seq, f) == IF seq.ok THEN f[seq.val] ELSE seq

\* A.chain(b => B).chain(c => C) and A.chain(b => B.chain(c => C)) run.
ApplyChain ==
    /\ pin.fn = "chain"
    /\ ~pdone
    /\ pout' = [left  |-> Chain(Chain(pin.A, pin.B), pin.C),
                right |-> Chain(pin.A, [b \in Vals |-> Chain(pin.B[b], pin.C)])]
    /\ pdone' = TRUE
    /\ UNCHANGED <<pin, mvars, rvars, bvars>>

----------------------------------------------------------------------------
(* One Sequence under the blocking and the suspension-based driver *)

\* What the transport returns for one request: an error of its own or of
\* the API, or a response whose body is read afterwards.  Body bytes are
\* either the JSON encoding of a value or bytes that are no JSON at all.
Json(v) == <<"json", v>>
Garbage == <<"garbage", None>>

NoError == [kind |-> None, http_code |-> 0, hv |-> None]

RawBody(bytes)  == [error |-> NoError, readable |-> TRUE, bytes |-> bytes]
RawUnreadable   == [error |-> NoError, readable |-> FALSE, bytes |-> Garbage]
RawError(e)     == [error |-> e, readable |-> FALSE, bytes |-> Garbage]

\* ResponseBodySync::get_body / ResponseBodyAsync::get_body_async: the bytes
\* of the response, or the transport's error when the body cannot be read.
GetBody(response) ==
    IF response.readable THEN Ok(response.bytes) ELSE Err(TransportError)

GetBodyAsync(response) ==
    IF response.readable THEN Ok(response.bytes) ELSE Err(TransportError)

\* serde_json::from_slice; its error converts into http::Error with `?`.
FromSlice(bytes) ==
    IF bytes[1] = "json" THEN Ok(bytes[2]) ELSE Err(DecodeError)

\* JsonResponse::from_response_sync
JsonFromResponseSync(response) ==
    LET body == GetBody(response)
    IN  IF ~body.ok THEN body ELSE FromSlice(body.val)

\* Bytes that do not decode are reported as a failure of the transport.
JsonFromResponseAsyncLossy(response) ==
    LET body == GetBodyAsync(response)
    IN  IF ~body.ok THEN body
        ELSE IF FromSlice(body.val).ok THEN FromSlice(body.val) ELSE Err(TransportError)

\* JsonResponse::from_response_async
JsonFromResponseAsync(response) ==
    LET body == GetBodyAsync(response)
    IN  IF ~body.ok THEN body ELSE FromSlice(body.val)

\* One request executed by the blocking / the suspension-based form of the
\* transport: its error, or the response decoded as the descriptor declares.
ExecuteSync(raw) ==
    IF raw.error # NoError THEN Err(raw.error) ELSE JsonFromResponseSync(raw)

ExecuteAsync(raw) ==
    IF raw.error # NoError THEN Err(raw.error) ELSE JsonFromResponseAsync(raw)

\* The raw responses drawn for the requests of each Sequence.
CallRaws ==
    {RawBody(Json("v1")), RawBody(Garbage), RawUnreadable,
     RawError(ApiError(401, None)), RawError(ApiError(500, None))}

RefreshRaws ==
    {RawBody(Json(Cred(1))), RawBody(Garbage), RawUnreadable,
     RawError(ApiError(401, None))}

AuthInfoRaws ==
    {RawBody(Json(x)) : x \in [challenge : {"ch1", "badmodulus"}, srp_session : {"srp1"}]}
    \cup {RawBody(Garbage), RawUnreadable}
    \cup {RawError(ApiError(422, h)) : h \in HVChallenges}

AuthRaws ==
    {RawBody(Json(x)) : x \in {a \in AuthResponses : a.tfa \in {"None", "FIDO2"}}}
    \cup {RawBody(Garbage), RawUnreadable}
    \cup {RawError(ApiError(422, h)) : h \in HVChallenges}

SeqDefs == {"login", "wrap", "refresh"}

NoRun == [result |-> NoResult, sent |-> <<>>, auth |-> Cred(0)]

\* wrap_session_request driven by the blocking driver on a Session holding
\* auth: each step runs to completion before the next begins.
WrapSyncRun(r, auth, rs) ==
    LET data     == BearerToken(HeaderUid(Build(r), auth.uid), auth.access_token)
        original == Sent("original", data)
        r1       == ExecuteSync(rs[1])
    IN  IF AfterOriginal(r1) = "done"
        THEN [result |-> r1, sent |-> <<original>>, auth |-> auth]
        ELSE LET refresh == Sent("refresh", AuthRefreshRequest(auth.uid, auth.refresh_token))
                 r2      == ExecuteSync(rs[2])
             IN  IF AfterRefresh(r2) = "done"
                 THEN [result |-> r2, sent |-> <<original, refresh>>, auth |-> auth]
                 ELSE LET writer_ == UserAuthFromResponse(r2.val)
                          retry   == Sent("retry",
                                          BearerToken(HeaderUid(data, writer_.uid),
                                                      writer_.access_token))
                      IN  [result |-> ExecuteSync(rs[3]),
                           sent   |-> <<original, refresh, retry>>,
                           auth   |-> writer_]

\* login_sequence_1 driven by the blocking driver.
LoginSyncRun(st, auth, rs) ==
    LET info == AuthInfoRequest(st.username)
        res  == LoginSequence1Result(st, ExecuteSync(rs[1]))
    IN  IF ~res.ok
        THEN [result |-> res, sent |-> <<info>>, auth |-> auth]
        ELSE [result |-> LoginSequence2Result(res.val, ExecuteSync(rs[2])),
              sent   |-> <<info, AuthRequest(res.val)>>,
              auth   |-> auth]

\* Session::refresh driven by the blocking driver; auth is what the Session
\* the pair was taken from holds.
RefreshSyncRun(d, auth, rs) ==
    LET r == ExecuteSync(rs[1])
    IN  [result |-> IF r.ok THEN Ok(SessionNew(UserAuthFromResponse(r.val))) ELSE r,
         sent   |-> <<AuthRefreshRequest(d.user_uid, d.token)>>,
         auth   |-> auth]

\* The suspension-based run of the Sequence has ended.
AsyncDone ==
    CASE seqdef = "wrap"    -> wpc[1] = "done"
      [] seqdef = "login"   -> lpc \in LoginTerminal
      [] seqdef = "refresh" -> rpc = "done"
      [] OTHER              -> FALSE

\* The blocking driver runs the same Sequence, with the same arguments, on
\* a Session constructed like the one the suspension-based driver ran on.
BlockingRun ==
    /\ ~bdone
    /\ AsyncDone
    /\ brun' = CASE seqdef = "wrap"    -> WrapSyncRun(wdesc[1], Cred(0), raws)
                 [] seqdef = "login"   -> LoginSyncRun(lstate, Cred(0), raws)
                 [] seqdef = "refresh" -> RefreshSyncRun(sdata, Cred(0), raws)
    /\ bdone' = TRUE
    /\ UNCHANGED <<seqdef, raws, mvars, pvars, rvars>>

----------------------------------------------------------------------------
(* Specifications *)

InitLoginVars ==
    /\ lpc = "INIT"
    /\ lstate = NoState
    /\ lsrp = NoLoginState
    /\ loutcome = NoOutcome
    /\ lsent = <<>>
    /\ lresp = <<>>

\* A Session holding the credentials of the server's first response, with
\* no call under way.
InitSessionVars ==
    /\ user_auth = [c \in Cells |-> Cred(0)]
    /\ readers = [c \in Cells |-> {}]
    /\ writer = [c \in Cells |-> NoOne]
    /\ wpc = [w \in Calls |-> "idle"]
    /\ wdesc = [w \in Calls |-> NoDesc]
    /\ wdata = [w \in Calls |-> NoData]
    /\ wtmp = [w \in Calls |-> NoTmp]
    /\ wsent = [w \in Calls |-> <<>>]
    /\ wresp = [w \in Calls |-> <<>>]
    /\ wresult = [w \in Calls |-> NoResult]
    /\ spc = "idle"
    /\ sdata = NoSnapshot
    /\ nextCred = 1

\* The Session of a login that ended in SessionType::Authenticated.
InitAuthenticated ==
    /\ login_type = "Authenticated"
    /\ stype = "Authenticated"
    /\ wvia = [w \in Calls |-> None]

\* The outcome of a login that returned either SessionType.
InitSessionType ==
    /\ login_type \in SessionTypes
    /\ stype = login_type
    /\ wvia = [w \in Calls |-> None]

\* No function has been given arguments.
InitNoInput ==
    /\ pin = [fn |-> None]
    /\ pout = None
    /\ pdone = FALSE

\* Session::refresh has not been called.
InitNoRefresh ==
    /\ rpc = "idle"
    /\ rsent = <<>>
    /\ rresp = <<>>
    /\ rresult = NoResult

\* No Sequence is run under both drivers.
InitNoModes ==
    /\ seqdef = None
    /\ raws = <<>>
    /\ brun = NoRun
    /\ bdone = FALSE

Init ==
    /\ InitLoginVars /\ InitSessionVars /\ InitAuthenticated /\ InitNoInput
    /\ InitNoRefresh /\ InitNoModes

InitTotp ==
    /\ InitLoginVars /\ InitSessionVars /\ InitSessionType /\ InitNoInput
    /\ InitNoRefresh /\ InitNoModes

NextLogin ==
    \/ \E u \in Usernames, p \in Passwords, h \in HVLoginData :
          LoginStart(u, p, h) /\ UNCHANGED <<cvars, wvars, svars, nextCred, tvars, xvars>>
    \/ \E r \in {Ok(x) : x \in AuthInfoResponses} \cup {Err(e) : e \in HttpErrors} :
          AuthInfoRespond(r) /\ UNCHANGED <<cvars, wvars, svars, nextCred, tvars, xvars>>
    \/ SubmitProof /\ UNCHANGED <<cvars, wvars, svars, nextCred, tvars, xvars>>
    \/ \E r \in {Ok(x) : x \in AuthResponses} \cup {Err(e) : e \in HttpErrors} :
          AuthRespond(r) /\ UNCHANGED <<cvars, wvars, svars, nextCred, tvars, xvars>>

SpecLogin == Init /\ [][NextLogin]_vars

Next ==
    \/ \E w \in Calls : WrapCreate(w, DescOf(w))
    \/ \E w \in Calls : WrapBuildUid(w)
    \/ \E w \in Calls : WrapBuildTokenSend(w)
    \/ \E w \in Calls, r \in CallResults : WrapRespond(w, r)
    \/ \E w \in Calls : WrapRefreshUid(w)
    \/ \E w \in Calls : WrapRefreshTokenSend(w)
    \/ \E w \in Calls, r \in RefreshResults : WrapRefreshRespond(w, r)
    \/ \E w \in Calls : WrapWrite(w)
    \/ \E w \in Calls : WrapRetrySend(w)
    \/ \E w \in Calls, r \in CallResults : WrapRetryRespond(w, r)
    \/ SnapUid
    \/ SnapToken

Spec == Init /\ [][Next]_vars

\* The descriptors a client makes call w with: a code submission or an
\* ordinary request.
DescsOf(w) == {TOTPRequest(code) : code \in Codes} \cup {DescOf(w)}

\* What the transport may answer to a request: TOTPRequest has Output = ().
ResultsOf(r) ==
    IF IsTotp(r) THEN {Ok("unit")} \cup {Err(e) : e \in CallErrors} ELSE CallResults

\* Wrapped calls, code submissions among them, on the outcome of a login.
NextTotp ==
    \/ \E w \in Calls : \E r \in DescsOf(w) : WrapCreate(w, r)
    \/ \E w \in Calls : WrapBuildUid(w)
    \/ \E w \in Calls : WrapBuildTokenSend(w)
    \/ \E w \in Calls : \E r \in ResultsOf(wdesc[w]) : WrapRespond(w, r)
    \/ \E w \in Calls : WrapRefreshUid(w)
    \/ \E w \in Calls : WrapRefreshTokenSend(w)
    \/ \E w \in Calls, r \in RefreshResults : WrapRefreshRespond(w, r)
    \/ \E w \in Calls : WrapWrite(w)
    \/ \E w \in Calls : WrapRetrySend(w)
    \/ \E w \in Calls : \E r \in ResultsOf(wdesc[w]) : WrapRetryRespond(w, r)

SpecTotp == InitTotp /\ [][NextTotp]_vars

\* Of the answers to a wrapped request one success and the expiry are
\* enough here: the calls are there to replace the credentials.
FewCallResults == {Ok("v1"), Err(ApiError(401, None))}

\* Wrapped calls that may be cancelled while they are suspended.
NextCancel ==
    \/ \E w \in Calls : WrapCreate(w, DescOf(w))
    \/ \E w \in Calls : WrapBuildUid(w)
    \/ \E w \in Calls : WrapBuildTokenSend(w)
    \/ \E w \in Calls, r \in FewCallResults : WrapRespond(w, r)
    \/ \E w \in Calls : WrapRefreshUid(w)
    \/ \E w \in Calls : WrapRefreshTokenSend(w)
    \/ \E w \in Calls, r \in RefreshResults : WrapRefreshRespond(w, r)
    \/ \E w \in Calls : WrapWrite(w)
    \/ \E w \in Calls : WrapRetrySend(w)
    \/ \E w \in Calls, r \in FewCallResults : WrapRetryRespond(w, r)
    \/ \E w \in Calls : WrapCancel(w)
    \/ \E w \in Calls : \E r \in ResultsFor(w) : WrapLateRespond(w, r)

SpecCancel == Init /\ [][NextCancel]_vars

\* A Session in use, a snapshot of it, and a Session restored from the
\* snapshot with Session::refresh.
NextRefresh ==
    \/ \E w \in Calls : WrapCreate(w, DescOf(w))
    \/ \E w \in Calls : WrapBuildUid(w)
    \/ \E w \in Calls : WrapBuildTokenSend(w)
    \/ \E w \in Calls, r \in FewCallResults : WrapRespond(w, r)
    \/ \E w \in Calls : WrapRefreshUid(w)
    \/ \E w \in Calls : WrapRefreshTokenSend(w)
    \/ \E w \in Calls, r \in RefreshResults : WrapRefreshRespond(w, r)
    \/ \E w \in Calls : WrapWrite(w)
    \/ \E w \in Calls : WrapRetrySend(w)
    \/ \E w \in Calls, r \in FewCallResults : WrapRetryRespond(w, r)
    \/ SnapUid
    \/ SnapToken
    \/ spc = "done" /\ RefreshStart(sdata)
    \/ \E r \in RefreshResults : RefreshRespond(r)

SpecRefresh == Init /\ [][NextRefresh]_vars

\* Call 1 is created before anything else happens on the Session; it is
\* driven whenever the client likes, before or after the other calls.
NextLazy ==
    \/ WrapCreate(1, DescOf(1))
    \/ /\ wpc[1] # "idle"
       /\ \/ \E w \in Calls : WrapCreate(w, DescOf(w))
          \/ \E w \in Calls : WrapBuildUid(w)
          \/ \E w \in Calls : WrapBuildTokenSend(w)
          \/ \E w \in Calls, r \in FewCallResults : WrapRespond(w, r)
          \/ \E w \in Calls : WrapRefreshUid(w)
          \/ \E w \in Calls : WrapRefreshTokenSend(w)
          \/ \E w \in Calls, r \in RefreshResults : WrapRefreshRespond(w, r)
          \/ \E w \in Calls : WrapWrite(w)
          \/ \E w \in Calls : WrapRetrySend(w)
          \/ \E w \in Calls, r \in FewCallResults : WrapRetryRespond(w, r)

SpecLazy == Init /\ [][NextLazy]_vars

\* What the transport may answer to the original or retried request of call
\* w: LogoutRequest has Output = ().
AnswersTo(w) ==
    IF IsLogout(wdesc[w])
    THEN {Ok("unit"), Err(ApiError(401, None)), Err(ApiError(500, None))}
    ELSE FewCallResults

\* Call 1 is Session::logout; the other calls are made on the same Session
\* (or a clone) once logout has returned.
NextLogout ==
    \/ WrapCreate(1, LogoutRequest)
    \/ \E w \in Calls \ {1} : wpc[1] = "done" /\ WrapCreate(w, DescOf(w))
    \/ \E w \in Calls : WrapBuildUid(w)
    \/ \E w \in Calls : WrapBuildTokenSend(w)
    \/ \E w \in Calls : \E r \in AnswersTo(w) : WrapRespond(w, r)
    \/ \E w \in Calls : WrapRefreshUid(w)
    \/ \E w \in Calls : WrapRefreshTokenSend(w)
    \/ \E w \in Calls, r \in RefreshResults : WrapRefreshRespond(w, r)
    \/ \E w \in Calls : WrapWrite(w)
    \/ \E w \in Calls : WrapRetrySend(w)
    \/ \E w \in Calls : \E r \in AnswersTo(w) : WrapRetryRespond(w, r)

SpecLogout == Init /\ [][NextLogout]_vars

\* Either a login attempt or wrapped calls on a Session.
InitLive ==
    /\ InitLoginVars /\ InitSessionVars /\ InitAuthenticated /\ InitNoInput
    /\ InitNoRefresh
    /\ seqdef \in {"login", "wrap"}
    /\ raws = <<>>
    /\ brun = NoRun
    /\ bdone = FALSE

\* The steps of call w once its Sequence is driven, the transport's answers
\* among them.
CallStep(w) ==
    \/ WrapBuildUid(w)
    \/ WrapBuildTokenSend(w)
    \/ \E r \in FewCallResults : WrapRespond(w, r)
    \/ WrapRefreshUid(w)
    \/ WrapRefreshTokenSend(w)
    \/ \E r \in RefreshResults : WrapRefreshRespond(w, r)
    \/ WrapWrite(w)
    \/ WrapRetrySend(w)
    \/ \E r \in FewCallResults : WrapRetryRespond(w, r)

NextLive ==
    \/ seqdef = "login" /\ NextLogin
    \/ seqdef = "wrap" /\ \E w \in Calls : WrapCreate(w, DescOf(w))
    \/ seqdef = "wrap" /\ \E w \in Calls : CallStep(w)

\* Every step of a login attempt or of a call moves its position.
pcs == <<lpc, wpc>>

Positions ==
    {"idle", "created", "build_token", "sent", "expired", "refresh_token",
     "refreshing", "write_wait", "retry_build", "retrying", "done", "cancelled"}

LoginPositions ==
    {"INIT", "INFO_REQUESTED", "PROOF_COMPUTED", "PROOF_SUBMITTED"} \cup LoginTerminal

\* A step of the login attempt / of call w: it moves that position.
LoginMoves == \E p \in LoginPositions \ {lpc} : lpc' = p
CallMoves(w) == \E p \in Positions \ {wpc[w]} : wpc' = [wpc EXCEPT ![w] = p]

\* A Sequence that was created is driven, every transport call returns, and
\* a step that waits for a guard is taken once the guard stays free.
Fairness ==
    /\ WF_pcs(seqdef = "login" /\ LoginMoves /\ NextLogin)
    /\ \A w \in Calls : WF_pcs(seqdef = "wrap" /\ CallMoves(w) /\ CallStep(w))

SpecLive == InitLive /\ [][NextLive]_vars /\ Fairness

\* The arguments of one function application, drawn from bounded sets.
InitInput ==
    /\ \/ pin \in KeyRequests
       \/ pin \in [fn : {"eq"}, a : SessionRefreshDatas, b : SessionRefreshDatas,
                    c : SessionRefreshDatas]
       \/ pin \in [fn : {"chain"}, A : SeqResults, B : StepFunctions, C : StepFunctions]
       \/ pin \in PageSizeInputs
       \/ pin \in MessagesRequests
    /\ pout = None
    /\ pdone = FALSE

InitPure ==
    /\ InitLoginVars /\ InitSessionVars /\ InitAuthenticated /\ InitInput
    /\ InitNoRefresh /\ InitNoModes

NextPure ==
    \/ ApplyBuildKeyRequest
    \/ ApplyEq
    \/ ApplyChain
    \/ ApplyWithPageSize
    \/ ApplyBuildMessagesRequest

SpecPure == InitPure /\ [][NextPure]_vars

\* One Sequence and the raw responses to its requests.
InitModes ==
    /\ seqdef \in SeqDefs
    /\ raws \in CASE seqdef = "wrap"    -> CallRaws \X RefreshRaws \X CallRaws
                  [] seqdef = "login"   -> AuthInfoRaws \X AuthRaws
                  [] seqdef = "refresh" -> {<<x>> : x \in RefreshRaws}
    /\ brun = NoRun
    /\ bdone = FALSE

InitBoth ==
    /\ InitLoginVars /\ InitSessionVars /\ InitAuthenticated /\ InitNoInput
    /\ InitNoRefresh /\ InitModes

\* The Sequence driven by the suspension-based driver, each request answered
\* by the raw response drawn for it, and then by the blocking driver.
NextModes ==
    \/ seqdef = "wrap" /\ WrapCreate(1, DescOf(1))
    \/ seqdef = "wrap" /\ WrapBuildUid(1)
    \/ seqdef = "wrap" /\ WrapBuildTokenSend(1)
    \/ seqdef = "wrap" /\ WrapRespond(1, ExecuteAsync(raws[1]))
    \/ seqdef = "wrap" /\ WrapRefreshUid(1)
    \/ seqdef = "wrap" /\ WrapRefreshTokenSend(1)
    \/ seqdef = "wrap" /\ WrapRefreshRespond(1, ExecuteAsync(raws[2]))
    \/ seqdef = "wrap" /\ WrapWrite(1)
    \/ seqdef = "wrap" /\ WrapRetrySend(1)
    \/ seqdef = "wrap" /\ WrapRetryRespond(1, ExecuteAsync(raws[3]))
    \/ /\ seqdef = "login"
       /\ \E u \in Usernames, p \in Passwords, h \in HVLoginData : LoginStart(u, p, h)
       /\ UNCHANGED <<cvars, wvars, svars, nextCred, tvars, xvars>>
    \/ /\ seqdef = "login"
       /\ AuthInfoRespond(ExecuteAsync(raws[1]))
       /\ UNCHANGED <<cvars, wvars, svars, nextCred, tvars, xvars>>
    \/ /\ seqdef = "login"
       /\ SubmitProof
       /\ UNCHANGED <<cvars, wvars, svars, nextCred, tvars, xvars>>
    \/ /\ seqdef = "login"
       /\ AuthRespond(ExecuteAsync(raws[2]))
       /\ UNCHANGED <<cvars, wvars, svars, nextCred, tvars, xvars>>
    \/ seqdef = "refresh" /\ SnapUid
    \/ seqdef = "refresh" /\ SnapToken
    \/ seqdef = "refresh" /\ spc = "done" /\ RefreshStart(sdata)
    \/ seqdef = "refresh" /\ RefreshRespond(ExecuteAsync(raws[1]))
    \/ BlockingRun

SpecModes == InitBoth /\ [][NextModes]_vars

----------------------------------------------------------------------------
(* Properties of the login flow (checked under SpecLogin) *)

LoginErrorKinds ==
    {"Request", "ServerProof", "Unsupported2FA", "HumanVerificationRequired", "SRPProof"}

\* The server proof this attempt expects, computed from the attempt's own
\* password and auth-info response.
ExpectedServerProof ==
    GenerateProofs(SRPAuthWithPgp(lstate.password, lresp[1].val.challenge).val)
        .val.expected_server_proof

\* The proof submission was answered with an AuthResponse.
AuthAnswered == Len(lresp) = 2 /\ lresp[2].ok

ProofMatches == AuthAnswered /\ lresp[2].val.server_proof = ExpectedServerProof

\* C1: a login attempt that has ended has exactly one outcome, which is
\* Authenticated(Session), AwaitingTotp(handle) or one of the five LoginError
\* variants; an attempt that has not ended has none; and the outcome is
\* Authenticated only if the proof submission was answered with the server
\* proof the attempt expects.
C1_LoginOutcome ==
    /\ lpc \notin LoginTerminal => loutcome = NoOutcome
    /\ lpc \in LoginTerminal =>
          /\ loutcome # NoOutcome
          /\ \/ loutcome.ok /\ loutcome.val.type \in {"Authenticated", "AwaitingTotp"}
             \/ ~loutcome.ok /\ loutcome.val.le \in LoginErrorKinds
          /\ lpc = TerminalOf(loutcome)
    /\ lpc = "AUTHENTICATED" => ProofMatches

\* C1 witness: the server confirmed a proof other than the expected one, with
\* no second factor required, and the attempt failed with ServerProof.
C1_Witness ==
    /\ AuthAnswered
    /\ ~ProofMatches
    /\ lresp[2].val.tfa = "None"
    /\ lpc = "FAILED"
    /\ loutcome.val.le = "ServerProof"

\* C2: when the returned server proof matches, the outcome follows the
\* second-factor status of the AuthResponse: None -> Authenticated, Totp ->
\* AwaitingTotp, FIDO2 -> Unsupported2FA error, TotpOrFIDO2 -> AwaitingTotp;
\* the session of a success holds the credentials of that response.
C2_TfaBranchTable ==
    ProofMatches =>
        LET resp    == lresp[2].val
            session == [user_auth |-> [uid           |-> resp.uid,
                                       access_token  |-> resp.access_token,
                                       refresh_token |-> resp.refresh_token]]
        IN  /\ resp.tfa = "None" =>
                 loutcome = Ok([type |-> "Authenticated", session |-> session])
            /\ resp.tfa = "Totp" =>
                 loutcome = Ok([type |-> "AwaitingTotp", session |-> session])
            /\ resp.tfa = "FIDO2" =>
                 ~loutcome.ok /\ loutcome.val.le = "Unsupported2FA"
            /\ resp.tfa = "TotpOrFIDO2" =>
                 loutcome = Ok([type |-> "AwaitingTotp", session |-> session])

\* C2 witness: a matching proof with TOTP-or-FIDO2 ended in AwaitingTotp.
C2_Witness ==
    /\ ProofMatches
    /\ lresp[2].val.tfa = "TotpOrFIDO2"
    /\ lpc = "AWAITING_2FA"

\* An answer of the transport that is an API error carrying a
\* human-verification challenge.
IsHVAnswer(r) == ~r.ok /\ r.val.kind = "API" /\ r.val.hv # None

\* C10: whichever login request (auth-info or proof submission) is answered
\* with an API error carrying a human-verification challenge, the attempt ends
\* with HumanVerificationRequired exposing that challenge.
C10_HumanVerificationTranslated ==
    \A i \in 1..Len(lresp) :
        IsHVAnswer(lresp[i]) =>
            /\ lpc = "FAILED"
            /\ loutcome = Err([le  |-> "HumanVerificationRequired",
                               err |-> None,
                               hv  |-> lresp[i].val.hv])

----------------------------------------------------------------------------
(* Properties of wrapped calls (checked under Spec) *)

Unauthorized == [ok |-> FALSE, val |-> [kind |-> "API", http_code |-> 401, hv |-> None]]

Kinds(w) == [i \in 1..Len(wsent[w]) |-> wsent[w][i].kind]

\* C3: a wrapped call whose original request was answered 401, whose refresh
\* succeeded and whose retried request succeeded is done, and its result is
\* exactly the success value of the retried request.
C3_RefreshInvisible ==
    \A w \in Calls :
        (/\ Len(wresp[w]) = 3
         /\ wresp[w][1] = Unauthorized
         /\ wresp[w][2].ok
         /\ wresp[w][3].ok) =>
            /\ wpc[w] = "done"
            /\ wresult[w].ok
            /\ wresult[w].val \in Vals
            /\ wresult[w].val = wresp[w][3].val

\* C3 witness: such a call has returned.
C3_Witness ==
    \E w \in Calls :
        /\ Len(wresp[w]) = 3
        /\ wresp[w][3].ok
        /\ wpc[w] = "done"

\* C4: a wrapped call whose refresh request failed is done, its result is the
\* error of the refresh request, and nothing was sent after the refresh
\* request (the original request is not retried).
C4_RefreshFailure ==
    \A w \in Calls :
        (Len(wresp[w]) >= 2 /\ ~wresp[w][2].ok) =>
            /\ wpc[w] = "done"
            /\ ~wresult[w].ok
            /\ wresult[w] = wresp[w][2]
            /\ Kinds(w) = <<"original", "refresh">>
            /\ Len(wresp[w]) = 2

\* C4 witness: a refresh failed with an error other than the 401 that
\* started it, and the call has returned.
C4_Witness ==
    \E w \in Calls :
        /\ Len(wresp[w]) = 2
        /\ ~wresp[w][2].ok
        /\ wresp[w][2] # Unauthorized
        /\ wpc[w] = "done"

\* Every answer the call got was "unauthorized".
AlwaysUnauthorized(w) ==
    /\ Len(wresp[w]) >= 1
    /\ \A i \in 1..Len(wresp[w]) : wresp[w][i] = Unauthorized

\* C5 as stated: a call that is done and was answered "unauthorized" every time
\* made exactly two transport calls, the original request and one retry.
C5_TwoCallsOriginalAndRetry ==
    \A w \in Calls :
        (wpc[w] = "done" /\ AlwaysUnauthorized(w)) =>
            Kinds(w) = <<"original", "retry">>

\* C5 amended: a call sends at most one refresh and at most one retry (its
\* requests are a prefix of original, refresh, retry); a call answered
\* "unauthorized" every time makes exactly two transport calls, the original
\* request and the refresh request, sends no retry and returns that error; a
\* call whose refresh succeeded and whose retry was answered "unauthorized"
\* has made three calls and returns that error.
C5_AtMostOneRetry ==
    \A w \in Calls :
        /\ \E n \in 0..3 : Kinds(w) = SubSeq(<<"original", "refresh", "retry">>, 1, n)
        /\ (wpc[w] = "done" /\ AlwaysUnauthorized(w)) =>
              /\ Kinds(w) = <<"original", "refresh">>
              /\ wresult[w] = Unauthorized
        /\ (Len(wresp[w]) = 3 /\ wresp[w][3] = Unauthorized) =>
              /\ wpc[w] = "done"
              /\ Kinds(w) = <<"original", "refresh", "retry">>
              /\ wresult[w] = Unauthorized

\* C5 witness: a call answered "unauthorized" to its original and to its
\* refresh request has returned.
C5_Witness ==
    \E w \in Calls :
        /\ wpc[w] = "done"
        /\ AlwaysUnauthorized(w)
        /\ Len(wresp[w]) = 2

\* C6: a wrapped call whose original request failed with anything but an API
\* error of HTTP code 401 is done, its result is that very error, and only the
\* original request was sent (no refresh, no retry).
C6_OtherErrorsPropagate ==
    \A w \in Calls :
        (/\ Len(wresp[w]) >= 1
         /\ ~wresp[w][1].ok
         /\ ~(wresp[w][1].val.kind = "API" /\ wresp[w][1].val.http_code = 401)) =>
            /\ wpc[w] = "done"
            /\ wresult[w] = wresp[w][1]
            /\ Kinds(w) = <<"original">>
            /\ Len(wresp[w]) = 1

\* C6 witness: an original request failed with an API error of another code
\* and the call has returned.
C6_Witness ==
    \E w \in Calls :
        /\ Len(wresp[w]) = 1
        /\ ~wresp[w][1].ok
        /\ wresp[w][1].val.kind = "API"
        /\ wresp[w][1].val.http_code # 401
        /\ wpc[w] = "done"

\* C7: a wrapped call whose retried request failed is done, its result is that
\* very error, and it sent exactly original, refresh, retry: no second refresh
\* and no second retry.
C7_RetryFailurePropagates ==
    \A w \in Calls :
        (Len(wresp[w]) >= 3 /\ ~wresp[w][3].ok) =>
            /\ wpc[w] = "done"
            /\ wresult[w] = wresp[w][3]
            /\ Len(wresp[w]) = 3
            /\ Kinds(w) = <<"original", "refresh", "retry">>

\* C7 witness: a retried request was answered "unauthorized" again and the
\* call has returned.
C7_Witness ==
    \E w \in Calls :
        /\ Len(wresp[w]) = 3
        /\ wresp[w][3] = Unauthorized
        /\ wpc[w] = "done"

\* C8: when a call is about to send its retry it holds the write guard and the
\* cell holds the credentials of this call's refresh response; and a retry
\* that was sent is the original request (method, path, body) carrying the
\* uid and the access token of this call's refresh response.
C8_RetryUsesFreshCredentials ==
    \A w \in Calls :
        /\ wpc[w] = "retry_build" =>
              /\ writer[CellOf(w)] = w
              /\ readers[CellOf(w)] = {}
              /\ user_auth[CellOf(w)] =
                     [uid           |-> wresp[w][2].val.uid,
                      access_token  |-> wresp[w][2].val.access_token,
                      refresh_token |-> wresp[w][2].val.refresh_token]
        /\ Len(wsent[w]) >= 3 =>
              LET orig  == wsent[w][1].data
                  retry == wsent[w][3].data
              IN  /\ wsent[w][3].kind = "retry"
                  /\ retry.method = orig.method
                  /\ retry.path = orig.path
                  /\ retry.body = orig.body
                  /\ retry.headers.uid = wresp[w][2].val.uid
                  /\ retry.headers.authorization = <<"Bearer", wresp[w][2].val.access_token>>

\* C8 witness: a retry was sent with credentials other than those of the
\* original request.
C8_Witness ==
    \E w \in Calls :
        /\ Len(wsent[w]) = 3
        /\ wsent[w][3].data.headers # wsent[w][1].data.headers

\* A request carries credentials of one single response.
Untorn(sent) ==
    \E k \in 0..(nextCred - 1) :
        IF sent.kind = "refresh"
        THEN sent.data.body = [uid |-> Cred(k).uid, refresh_token |-> Cred(k).refresh_token]
        ELSE sent.data.headers = [uid           |-> Cred(k).uid,
                                  authorization |-> <<"Bearer", Cred(k).access_token>>]

\* C9: the triple in the cell is that of one single response; so is the
\* (uid, access token) pair of every request sent, the (uid, refresh token)
\* pair of every refresh request sent and the pair of a returned snapshot.
C9_NoTornCredentials ==
    /\ \A c \in Cells : \E k \in 0..(nextCred - 1) : user_auth[c] = Cred(k)
    /\ \A w \in Calls : \A i \in 1..Len(wsent[w]) : Untorn(wsent[w][i])
    /\ spc = "done" =>
          \E k \in 0..(nextCred - 1) :
              sdata = [user_uid |-> Cred(k).uid, token |-> Cred(k).refresh_token]

\* C9 witness: get_refresh_data has read the uid and not yet the token while a
\* call waits for the write guard with a refresh response in hand.
C9_Witness ==
    /\ spc = "token"
    /\ \E w \in Calls : wpc[w] = "write_wait"

----------------------------------------------------------------------------
(* Further properties of the login flow (checked under SpecLogin) *)

\* C11: when a login request is answered with a transport or server error
\* that carries no human-verification challenge, the attempt fails with
\* LoginError::Request wrapping that very error, and with no other variant.
C11_OtherErrorsUnchanged ==
    \A i \in 1..Len(lresp) :
        (~lresp[i].ok /\ lresp[i].val.hv = None) =>
            /\ lpc = "FAILED"
            /\ i = Len(lresp)
            /\ loutcome = [ok |-> FALSE,
                           val |-> [le |-> "Request", err |-> lresp[i].val, hv |-> None]]

\* C11 witness: the proof submission was answered with an API error without
\* a challenge and the attempt has ended.
C11_Witness ==
    /\ Len(lresp) = 2
    /\ ~lresp[2].ok
    /\ lresp[2].val.kind = "API"
    /\ lresp[2].val.hv = None
    /\ lpc = "FAILED"

\* C12: between the answer to the auth-info request and the proof submission
\* nothing is sent (PROOF_COMPUTED is reached with one request sent and one
\* answer received); and if the challenge data of the auth-info response is
\* malformed the attempt fails with SRPProof and only the auth-info request
\* was ever sent.
C12_ProofComputationLocal ==
    /\ lpc = "PROOF_COMPUTED" =>
          /\ Len(lsent) = 1
          /\ Len(lresp) = 1
          /\ lsrp.username = lstate.username
          /\ lsrp.session = lresp[1].val.srp_session
    /\ (/\ Len(lresp) >= 1
        /\ lresp[1].ok
        /\ lresp[1].val.challenge \in {"badmodulus", "badephemeral"}) =>
            /\ lpc = "FAILED"
            /\ ~loutcome.ok
            /\ loutcome.val.le = "SRPProof"
            /\ Len(lsent) = 1
            /\ lsent[1].endpoint = "auth/v4/info"
            /\ Len(lresp) = 1

\* C12 witness: generate_proofs failed on the server ephemeral and the attempt
\* has ended with SRPProof.
C12_Witness ==
    /\ Len(lresp) = 1
    /\ lresp[1].ok
    /\ lresp[1].val.challenge = "badephemeral"
    /\ lpc = "FAILED"
    /\ loutcome.val.le = "SRPProof"

\* The steps of the login flow; FAILED is entered from the state in which the
\* failure happens.
LoginOrder ==
    {<<"INIT", "INFO_REQUESTED">>,
     <<"INFO_REQUESTED", "PROOF_COMPUTED">>,
     <<"INFO_REQUESTED", "FAILED">>,
     <<"PROOF_COMPUTED", "PROOF_SUBMITTED">>,
     <<"PROOF_SUBMITTED", "AUTHENTICATED">>,
     <<"PROOF_SUBMITTED", "AWAITING_2FA">>,
     <<"PROOF_SUBMITTED", "FAILED">>}

\* C13: every step of a login attempt moves it along INIT -> INFO_REQUESTED ->
\* PROOF_COMPUTED -> PROOF_SUBMITTED -> terminal, or into FAILED from the
\* state where the failure happens; AUTHENTICATED and AWAITING_2FA are entered
\* from PROOF_SUBMITTED only, with both requests sent and both answered; and
\* nothing of the attempt changes once it is in a terminal state.
C13_LoginStateOrder ==
    [][/\ lpc' # lpc => <<lpc, lpc'>> \in LoginOrder
       /\ lpc' \in {"AUTHENTICATED", "AWAITING_2FA"} =>
             /\ Len(lsent') = 2
             /\ Len(lresp') = 2
             /\ lsent'[1].endpoint = "auth/v4/info"
             /\ lsent'[2].endpoint = "auth/v4"
       /\ lpc \in {"AUTHENTICATED", "AWAITING_2FA", "FAILED"} => UNCHANGED lvars]_vars

\* C13 witness: an attempt went all the way to AWAITING_2FA.
C13_Witness ==
    /\ lpc = "AWAITING_2FA"
    /\ Len(lsent) = 2
    /\ Len(lresp) = 2

----------------------------------------------------------------------------
(* Properties of the shared credentials cell (checked under Spec) *)

\* The credentials a refresh response of call v carries.
RefreshedBy(v) ==
    [uid           |-> wresp[v][2].val.uid,
     access_token  |-> wresp[v][2].val.access_token,
     refresh_token |-> wresp[v][2].val.refresh_token]

\* C17: all handles share one cell. When a call replaces the credentials
\* after its refresh, the cell behind every handle holds the new triple; a
\* wrapped call that attaches its uid header and a snapshot that reads its
\* user_uid read the value that is in the cell behind every other handle.
C17_ClonesShareCell ==
    [][/\ \A v \in Calls :
             (wpc[v] = "write_wait" /\ wpc'[v] = "retry_build") =>
                 \A h \in Handles : user_auth'[CellOf(h)] = RefreshedBy(v)
       /\ \A w \in Calls :
             (wpc[w] = "created" /\ wpc'[w] = "build_token") =>
                 \A h \in Handles : wdata'[w].headers.uid = user_auth[CellOf(h)].uid
       /\ (spc = "idle" /\ spc' = "token") =>
             \A h \in Handles : sdata'.user_uid = user_auth[CellOf(h)].uid]_vars

\* C17 witness: one call has refreshed the credentials, and both the original
\* request of another call and a returned snapshot carry the refreshed ones.
C17_Witness ==
    \E v, w \in Calls :
        /\ v # w
        /\ Len(wsent[v]) = 3
        /\ Len(wsent[w]) >= 1
        /\ wsent[w][1].data.headers.uid = RefreshedBy(v).uid
        /\ wsent[w][1].data.headers.authorization = <<"Bearer", RefreshedBy(v).access_token>>
        /\ spc = "done"
        /\ sdata = [user_uid |-> RefreshedBy(v).uid, token |-> RefreshedBy(v).refresh_token]

\* C18: the cell changes only in the step in which a wrapped call, holding a
\* successful refresh response, takes the write guard, and then it becomes the
\* whole triple of that response. Every other step (building or sending a
\* request, any response to any request, a failed refresh, get_refresh_data)
\* leaves every cell as it is.
C18_OnlyRefreshReplacesCell ==
    [][\A c \in Cells :
          user_auth'[c] # user_auth[c] =>
              \E w \in Calls :
                  /\ CellOf(w) = c
                  /\ wpc[w] = "write_wait" /\ wpc'[w] = "retry_build"
                  /\ Len(wresp[w]) = 2 /\ wresp[w][2].ok
                  /\ wsent[w][2].kind = "refresh"
                  /\ user_auth'[c] = RefreshedBy(w)]_vars

\* C18 witness: one call has replaced the cell with its refresh response,
\* another has ended in a failed refresh, and a snapshot has been taken.
C18_Witness ==
    \E v, w \in Calls :
        /\ wpc[w] = "retry_build"
        /\ user_auth[CellOf(w)] = RefreshedBy(w)
        /\ user_auth[CellOf(w)] # Cred(0)
        /\ wpc[v] = "done" /\ Len(wresp[v]) = 2 /\ ~wresp[v][2].ok
        /\ spc = "done"

\* The call has sent its refresh request.
RefreshSent(w) == Len(wsent[w]) >= 2 /\ wsent[w][2].kind = "refresh"

\* C19: refreshes are not coalesced and the writes are last-write-wins. Every
\* call whose original request was answered "unauthorized" sends a refresh
\* request of its own once it has read the cell, whatever the other calls
\* have done; and a call that holds the write guard has put the triple of its
\* own refresh response into the cell, whatever was there.
C19_RefreshesNotCoalesced ==
    \A w \in Calls :
        /\ (Len(wresp[w]) >= 1 /\ wresp[w][1] = Unauthorized
              /\ wpc[w] \notin {"expired", "refresh_token"}) => RefreshSent(w)
        /\ wpc[w] = "retry_build" => user_auth[CellOf(w)] = RefreshedBy(w)

\* C19 witness: two calls have each sent a refresh request with the same
\* refresh token, both were answered with new credentials, and the cell now
\* holds the triple of the response that was issued first: the later one was
\* overwritten.
C19_Witness ==
    \E v, w \in Calls :
        /\ v # w
        /\ RefreshSent(v) /\ RefreshSent(w)
        /\ wsent[v][2].data.body.refresh_token = wsent[w][2].data.body.refresh_token
        /\ Len(wsent[v]) = 3 /\ Len(wsent[w]) = 3
        /\ RefreshedBy(v).uid[2] < RefreshedBy(w).uid[2]
        /\ user_auth[CellOf(v)] = RefreshedBy(v)

\* The positions at which a call holds a read guard, and the one at which it
\* holds the write guard.
ReadingAt == {"build_token", "refresh_token"}
WritingAt == {"retry_build"}

\* C20: the holders of read guards on a cell are the calls that are reading
\* it and the snapshot while it reads; the holder of the write guard is the
\* one call that is replacing the cell; and while the write guard is held
\* there is no reader (and, writer being one value, no second writer).
C20_ReaderWriterDiscipline ==
    \A c \in Cells :
        /\ readers[c] = {w \in Calls : CellOf(w) = c /\ wpc[w] \in ReadingAt}
                           \cup {h \in {Snap} : CellOf(h) = c /\ spc = "token"}
        /\ \A w \in Calls : (CellOf(w) = c /\ wpc[w] \in WritingAt) <=> writer[c] = w
        /\ writer[c] # NoOne => readers[c] = {}

\* C20 witness: two read guards are held at once while a call with a refresh
\* response in hand waits for the write guard.
C20_Witness ==
    \E c \in Cells :
        /\ Cardinality(readers[c]) >= 2
        /\ \E w \in Calls : CellOf(w) = c /\ wpc[w] = "write_wait"

----------------------------------------------------------------------------
(* Properties of the second factor (checked under SpecTotp) *)

\* Call w has been made.
Made(w) == wpc[w] # "idle"

\* Call w is a code submission made through the pending handle.
SubmittedPending(w) == Made(w) /\ IsTotp(wdesc[w]) /\ wvia[w] = "AwaitingTotp"

\* C14: after a login that returned AwaitingTotp, every wrapped call other
\* than a code submission was made through an authenticated Session, and
\* by then a code had been submitted through the pending handle; while the
\* client holds the pending handle no such call has been made at all.
C14_PendingExposesNoCalls ==
    /\ \A w \in Calls :
          (Made(w) /\ ~IsTotp(wdesc[w])) =>
              /\ wvia[w] = "Authenticated"
              /\ login_type = "AwaitingTotp" => \E v \in Calls : SubmittedPending(v)
    /\ stype = "AwaitingTotp" => \A w \in Calls : Made(w) => IsTotp(wdesc[w])

\* C14 witness: the login returned AwaitingTotp, a code submission has failed
\* and a second one is under way; the handle is still the pending one.
C14_Witness ==
    /\ login_type = "AwaitingTotp"
    /\ stype = "AwaitingTotp"
    /\ \E v, w \in Calls :
          /\ SubmittedPending(v) /\ wpc[v] = "done" /\ ~wresult[v].ok
          /\ SubmittedPending(w) /\ wpc[w] = "sent"

\* C15: every code submission was made through a pending handle, none
\* through an authenticated Session.
C15_SubmitOnlyWhenPending ==
    \A w \in Calls : (Made(w) /\ IsTotp(wdesc[w])) => wvia[w] = "AwaitingTotp"

\* C16: after a login that returned AwaitingTotp the client holds an
\* authenticated Session exactly when a code submission made through the
\* pending handle has ended in success; submissions that failed, whether on
\* the original request, on the refresh or on the retry, leave it pending.
C16_AcceptedCodePromotes ==
    login_type = "AwaitingTotp" =>
        (stype = "Authenticated" <=>
            \E w \in Calls : SubmittedPending(w) /\ wpc[w] = "done" /\ wresult[w].ok)

\* C16 witness: a code submission was accepted and an ordinary call made
\* through the promoted Session has returned a value.
C16_Witness ==
    /\ login_type = "AwaitingTotp"
    /\ \E v, w \in Calls :
          /\ SubmittedPending(v) /\ wpc[v] = "done" /\ wresult[v].ok
          /\ ~IsTotp(wdesc[w]) /\ wvia[w] = "Authenticated"
          /\ wpc[w] = "done" /\ wresult[w].ok

----------------------------------------------------------------------------
(* Failures of the login flow (checked under SpecLogin) *)

\* C26: a failed step ends the login with that step's error and nothing
\* after it runs. When the auth-info request fails no LoginState is computed,
\* the auth-info request stays the only request sent and the outcome is the
\* Request error holding that failure; when the proof submission fails the
\* outcome is the Request error holding that failure, the closure that
\* validates the server proof not having run.
C26_FailuresShortCircuit ==
    /\ (Len(lresp) >= 1 /\ ~lresp[1].ok) =>
          /\ lpc = "FAILED"
          /\ lsrp.username = None /\ lsrp.session = None
          /\ Len(lsent) = 1 /\ Len(lresp) = 1
          /\ ~loutcome.ok
          /\ loutcome.val.le = "Request" /\ loutcome.val.err = lresp[1].val
    /\ (Len(lresp) = 2 /\ ~lresp[2].ok) =>
          /\ lpc = "FAILED"
          /\ Len(lsent) = 2
          /\ ~loutcome.ok
          /\ loutcome.val.le = "Request" /\ loutcome.val.err = lresp[2].val

\* C26 witness: the auth-info request has failed with a transport error and
\* the login has ended.
C26_Witness ==
    /\ Len(lresp) = 1 /\ ~lresp[1].ok /\ lresp[1].val = TransportError
    /\ lpc = "FAILED" /\ Len(lsent) = 1

\* C30: when the proof submission is answered with a server proof other than
\* the expected one, the outcome is the ServerProof error whatever the
\* second-factor status of the answer.
C30_MismatchBeforeTfaBranch ==
    (AuthAnswered /\ ~ProofMatches) =>
        /\ lpc = "FAILED"
        /\ loutcome = Err(LoginErrorServerProof)

\* C30 witness: a wrong server proof came with second-factor status FIDO2
\* and the login has ended.
C30_Witness ==
    /\ AuthAnswered /\ ~ProofMatches
    /\ lresp[2].val.tfa = "FIDO2"
    /\ lpc = "FAILED"

----------------------------------------------------------------------------
(* Properties of functions (checked under SpecPure) *)

\* C25: when A, the B it leads to and the C that one leads to all succeed,
\* A.chain(b => B).chain(c => C) and A.chain(b => B.chain(c => C)) yield the
\* same value, the one of C run on the value of B run on the value of A.
C25_ChainAssociative ==
    (pdone /\ pin.fn = "chain" /\ pin.A.ok
        /\ pin.B[pin.A.val].ok /\ pin.C[pin.B[pin.A.val].val].ok) =>
            /\ pout.left = pout.right
            /\ pout.left = pin.C[pin.B[pin.A.val].val]

\* C25 witness: three sequences with different values succeeded one after
\* the other and both compositions were run.
C25_Witness ==
    /\ pdone /\ pin.fn = "chain" /\ pin.A.ok
    /\ pin.B[pin.A.val].ok /\ pin.C[pin.B[pin.A.val].val].ok
    /\ pin.B[pin.A.val].val # pin.A.val
    /\ pout.left = pout.right

\* C27: eq is true exactly when both the user identifiers and the tokens
\* are equal, and it is reflexive, symmetric and transitive.
C27_SnapshotEquality ==
    (pdone /\ pin.fn = "eq") =>
        /\ pout.ab <=> (pin.a.user_uid = pin.b.user_uid /\ pin.a.token = pin.b.token)
        /\ pout.aa
        /\ pout.ab <=> pout.ba
        /\ (pout.ab /\ pout.bc) => pout.ac

\* C27 witness: eq was applied to two snapshots with the same user identifier
\* and different tokens, and said they differ.
C27_Witness ==
    /\ pdone /\ pin.fn = "eq"
    /\ pin.a.user_uid = pin.b.user_uid /\ pin.a.token # pin.b.token
    /\ ~pout.ab

\* C29: each key request descriptor builds a GET request whose url is its
\* endpoint followed by the parameter, character by character as given.
C29_KeyRequestPaths ==
    pdone =>
        /\ pin.fn = "GetUserKeysRequest" =>
              pout = [method |-> "GET", url |-> <<"core/v4/keys">>]
        /\ pin.fn = "GetAddressKeysRequest" =>
              /\ pout.method = "GET"
              /\ pout.url[1] = "core/v4/keys/address/"
              /\ Len(pout.url) = 1 + Len(pin.arg)
              /\ \A i \in 1..Len(pin.arg) : pout.url[1 + i] = pin.arg[i]
        /\ pin.fn = "GetPublicKeysRequest" =>
              /\ pout.method = "GET"
              /\ pout.url[1] = "core/v4/keys?Email="
              /\ Len(pout.url) = 1 + Len(pin.arg)
              /\ \A i \in 1..Len(pin.arg) : pout.url[1 + i] = pin.arg[i]
        /\ pin.fn = "GetAllKeysRequest" =>
              pout = [method |-> "GET", url |-> <<"core/v4/keys/all">>]

\* C29 witness: the public-keys request was built for an email that holds
\* characters reserved in a query string.
C29_Witness ==
    /\ pdone /\ pin.fn = "GetPublicKeysRequest"
    /\ pin.arg = <<"a", "@", "&">>
    /\ pout.url = <<"core/v4/keys?Email=", "a", "@", "&">>

----------------------------------------------------------------------------
(* Properties of the snapshot and of Session::refresh (checked under
   SpecRefresh) *)

\* C22: the snapshot that get_refresh_data returns is the uid and the
\* refresh token that are in the cell when it returns, neither having changed
\* since the read guard was taken; and the request Session::refresh sends for
\* a snapshot is one refresh request that carries the pair of the snapshot.
C22_SnapshotIsCellPair ==
    [][/\ (spc = "token" /\ spc' = "done") =>
             /\ sdata' = [user_uid |-> user_auth[CellOf(Snap)].uid,
                          token    |-> user_auth[CellOf(Snap)].refresh_token]
             /\ sdata'.user_uid = sdata.user_uid
       /\ (rpc = "idle" /\ rpc' = "sent") =>
             /\ Len(rsent') = 1
             /\ rsent'[1].path = "auth/v4/refresh"
             /\ rsent'[1].body = [uid |-> sdata.user_uid, refresh_token |-> sdata.token]]_vars

\* C22 witness: the credentials were refreshed, a snapshot taken after that
\* holds the refreshed pair, and Session::refresh has sent that pair.
C22_Witness ==
    /\ spc = "done"
    /\ \E k \in 1..(nextCred - 1) :
          sdata = [user_uid |-> Cred(k).uid, token |-> Cred(k).refresh_token]
    /\ rpc = "sent"
    /\ rsent[1].body = [uid |-> sdata.user_uid, refresh_token |-> sdata.token]

\* C23: the step in which Session::refresh ends leaves the credentials and
\* the lock of every cell there was as they are. On a successful response the
\* result is a Session on a cell that was not there before, holding the
\* triple of the response; on a failed one the result is that error and no
\* cell is added.
C23_RefreshMakesNewSession ==
    [][(rpc = "sent" /\ rpc' = "done") =>
          /\ \A c \in DOMAIN user_auth :
                /\ user_auth'[c] = user_auth[c]
                /\ readers'[c] = readers[c]
                /\ writer'[c] = writer[c]
          /\ rresp'[1].ok =>
                /\ rresult'.ok
                /\ rresult'.val.cell \notin DOMAIN user_auth
                /\ DOMAIN user_auth' = DOMAIN user_auth \cup {rresult'.val.cell}
                /\ user_auth'[rresult'.val.cell] =
                      [uid           |-> rresp'[1].val.uid,
                       access_token  |-> rresp'[1].val.access_token,
                       refresh_token |-> rresp'[1].val.refresh_token]
          /\ ~rresp'[1].ok =>
                /\ rresult' = rresp'[1]
                /\ DOMAIN user_auth' = DOMAIN user_auth]_vars

\* C23 witness: Session::refresh has yielded a Session whose cell holds
\* credentials other than those of the Session the snapshot was taken from.
C23_Witness ==
    /\ rpc = "done" /\ rresult.ok
    /\ \E c \in Cells : user_auth[rresult.val.cell] # user_auth[c]

----------------------------------------------------------------------------
(* Properties of cancellation (checked under SpecCancel) *)

\* C21: a cancelled call stays cancelled and sends nothing more; the step
\* in which the answer to its outstanding request arrives leaves the
\* credentials and the lock of every cell as they are; and whenever a cell
\* changes, it is another call, one that is not cancelled, that replaces it
\* with the triple of its own refresh response.
C21_CancelledNeverWrites ==
    [][\A w \in Calls :
          wpc[w] = "cancelled" =>
              /\ wpc'[w] = "cancelled"
              /\ wsent'[w] = wsent[w]
              /\ wresult'[w] = wresult[w]
              /\ wresp'[w] # wresp[w] => cvars' = cvars
              /\ user_auth' # user_auth =>
                    \E v \in Calls \ {w} :
                        /\ wpc[v] = "write_wait" /\ wpc'[v] = "retry_build"
                        /\ user_auth'[CellOf(v)] = RefreshedBy(v)]_vars

\* C21 witness: a call was cancelled while its refresh request was
\* outstanding, the server has granted that refresh since, and the cell
\* still holds the credentials it held.
C21_Witness ==
    \E w \in Calls :
        /\ wpc[w] = "cancelled"
        /\ Len(wsent[w]) = 2 /\ wsent[w][2].kind = "refresh"
        /\ Len(wresp[w]) = 2 /\ wresp[w][2].ok
        /\ user_auth[CellOf(w)] = Cred(0)
        /\ nextCred = 2

----------------------------------------------------------------------------
(* Properties of the two drivers (checked under SpecModes) *)

SameResult(a, b) == a.ok = b.ok /\ a.val = b.val

\* The Session a successful Session::refresh returned holds what the
\* blocking run's Session holds; a failure is the same error.
SameSession(a, b) ==
    /\ a.ok = b.ok
    /\ IF a.ok THEN user_auth[a.val.cell] = b.val.user_auth ELSE a.val = b.val

\* C24: for the same raw transport responses, the blocking and the
\* suspension-based run of one Sequence definition (login, wrapped call,
\* Session::refresh) end with the same success value or error, the same
\* sequence of requests sent, and the same final credentials.
C24_DriversAgree ==
    bdone =>
        CASE seqdef = "wrap" ->
                /\ SameResult(wresult[1], brun.result)
                /\ wsent[1] = brun.sent
                /\ user_auth[CellOf(1)] = brun.auth
          [] seqdef = "login" ->
                /\ SameResult(loutcome, brun.result)
                /\ lsent = brun.sent
                /\ user_auth[CellOf(1)] = brun.auth
          [] seqdef = "refresh" ->
                /\ SameSession(rresult, brun.result)
                /\ rsent = brun.sent
                /\ user_auth[CellOf(Snap)] = brun.auth

\* Both drivers have run a wrapped call whose refresh succeeded and whose
\* retried request was answered by bytes that do not decode.
C24_Witness ==
    /\ bdone
    /\ seqdef = "wrap"
    /\ Len(wsent[1]) = 3
    /\ user_auth[CellOf(1)] = Cred(1)
    /\ ~wresult[1].ok
    /\ wresult[1].val = DecodeError

----------------------------------------------------------------------------
(* Order of the steps of one wrapped call (checked under Spec) *)

StepOrder == <<"original", "refresh", "retry">>

\* Requests of call w the transport has not answered yet.
Outstanding(w) == Len(wsent[w]) - Len(wresp[w])

\* C31: within one wrapped call the steps are strictly sequential: at most
\* one transport call of the invocation is outstanding at any time, and the
\* events occur only in the order original request, (on a 401) refresh
\* request, credentials write, retried request.
C31_StepsSequential ==
    \A w \in Calls :
        /\ Outstanding(w) \in {0, 1}
        /\ Outstanding(w) = 1 <=> wpc[w] \in Suspended
        /\ Kinds(w) = SubSeq(StepOrder, 1, Len(wsent[w]))
        /\ Len(wsent[w]) >= 2 => wresp[w][1] = Unauthorized
        /\ writer[CellOf(w)] = w =>
              /\ Len(wsent[w]) = 2
              /\ Len(wresp[w]) = 2
              /\ wresp[w][2].ok
              /\ user_auth[CellOf(w)] = UserAuthFromResponse(wresp[w][2].val)
        /\ Len(wsent[w]) = 3 =>
              /\ wresp[w][2].ok
              /\ wsent[w][3].data.headers.authorization =
                    <<"Bearer", wresp[w][2].val.access_token>>

\* A call is waiting for the answer to its retried request, with its
\* original request and its refresh request answered.
C31_Witness ==
    \E w \in Calls :
        /\ wpc[w] = "retrying"
        /\ Len(wsent[w]) = 3
        /\ Len(wresp[w]) = 2

----------------------------------------------------------------------------
(* Guards and transport calls (checked under Spec) *)

\* Holders of a guard, read or write, on cell c.
GuardHolders(c) == readers[c] \cup (IF writer[c] = NoOne THEN {} ELSE {writer[c]})

\* The holder's next step is one it can take at once: it waits neither for
\* a guard nor for the transport, and it ends with the guard released.
ReleasesNext(h) ==
    IF h = Snap
    THEN ENABLED SnapToken
    ELSE \/ wpc[h] = "build_token" /\ ENABLED WrapBuildTokenSend(h)
         \/ wpc[h] = "refresh_token" /\ ENABLED WrapRefreshTokenSend(h)
         \/ wpc[h] = "retry_build" /\ ENABLED WrapRetrySend(h)

\* C34: no guard on the Credentials cell is held while a transport call is
\* outstanding: the read guard is released before the original and before
\* the refresh request are executed, the write guard before the retried
\* request is; so a guard is only ever held by someone about to release it,
\* and concurrent wrapped calls on one Session cannot deadlock on the cell.
C34_NoGuardAcrossTransport ==
    /\ \A w \in Calls :
          Outstanding(w) = 1 => w \notin GuardHolders(CellOf(w))
    /\ \A c \in Cells : \A h \in GuardHolders(c) : ReleasesNext(h)

\* One call waits for the transport while another holds the write guard and
\* a third party waits for the cell.
C34_Witness ==
    \E w, v \in Calls :
        /\ w # v
        /\ wpc[w] = "refreshing"
        /\ writer[CellOf(v)] = v
        /\ spc = "idle"
        /\ ~CanRead(CellOf(Snap))

----------------------------------------------------------------------------
(* A failed refresh (checked under Spec) *)

RefreshAnswered(w) == Len(wresp[w]) >= 2
RefreshFailed(w) == RefreshAnswered(w) /\ ~wresp[w][2].ok
RefreshSucceeded(w) == RefreshAnswered(w) /\ wresp[w][2].ok

\* C35: a wrapped call whose refresh request failed ends there and never
\* writes the cell: the cell holds what it held before, that is the
\* credentials the Session was made with or those of another call's
\* successful refresh, with no field cleared; while no refresh has
\* succeeded, every call attaches the old identifier and access token.
C35_FailedRefreshLeavesCell ==
    /\ \A w \in Calls :
          RefreshFailed(w) =>
              /\ wpc[w] = "done"
              /\ Len(wsent[w]) = 2
              /\ wresult[w] = wresp[w][2]
              /\ writer[CellOf(w)] # w
              /\ \/ user_auth[CellOf(w)] = Cred(0)
                 \/ \E v \in Calls \ {w} :
                       /\ RefreshSucceeded(v)
                       /\ user_auth[CellOf(w)] = UserAuthFromResponse(wresp[v][2].val)
    /\ (\A v \in Calls : ~RefreshSucceeded(v)) =>
          /\ \A c \in Cells : user_auth[c] = Cred(0)
          /\ \A v \in Calls :
                Len(wsent[v]) >= 1 =>
                    /\ wsent[v][1].data.headers.uid = Cred(0).uid
                    /\ wsent[v][1].data.headers.authorization = <<"Bearer", Cred(0).access_token>>

\* The refresh of one call has failed, no refresh has succeeded, and another
\* call has its original request with the transport.
C35_Witness ==
    \E w, v \in Calls :
        /\ w # v
        /\ RefreshFailed(w)
        /\ wpc[w] = "done"
        /\ wpc[v] = "sent"
        /\ \A u \in Calls : ~RefreshSucceeded(u)

----------------------------------------------------------------------------
(* A 401 on stale credentials (checked under Spec) *)

\* The response the credentials of a sent original request were issued in.
IssueOfOriginal(w) == wsent[w][1].data.headers.authorization[2][2]

\* C36: a wrapped call starts a refresh on every 401 it receives, without
\* comparing the access token it sent with the one in the cell: the call
\* never ends on that 401, its refresh request carries the identifier and
\* refresh token of one credentials triple the cell has held (the first
\* one or one a refresh response carried, not always the one the call
\* sent), and once it has the write guard the cell holds the credentials
\* of its own refresh response, whatever was there.
C36_RefreshOnEvery401 ==
    \A w \in Calls :
        (Len(wresp[w]) >= 1 /\ wresp[w][1] = Unauthorized) =>
            /\ wpc[w] = "done" => RefreshSent(w)
            /\ wpc[w] = "refresh_token" =>
                  /\ w \in readers[CellOf(w)]
                  /\ wtmp[w].uid = user_auth[CellOf(w)].uid
            /\ RefreshSent(w) =>
                  \E auth \in {Cred(0)} \cup {RefreshedBy(v) : v \in {u \in Calls : RefreshSucceeded(u)}} :
                      wsent[w][2].data.body =
                          [uid |-> auth.uid, refresh_token |-> auth.refresh_token]
            /\ wpc[w] = "retry_build" => user_auth[CellOf(w)] = RefreshedBy(w)

\* A call sent its original request with the first credentials; when its
\* 401 arrived another call had replaced them; it refreshed with the
\* replaced refresh token and has overwritten the cell again.
C36_Witness ==
    \E w \in Calls :
        /\ RefreshSent(w)
        /\ IssueOfOriginal(w) = 0
        /\ wsent[w][2].data.body.refresh_token = Cred(1).refresh_token
        /\ wpc[w] = "retry_build"
        /\ user_auth[CellOf(w)] = Cred(2)

----------------------------------------------------------------------------
(* Laziness of a wrapped call (checked under SpecLazy) *)

\* C37: a wrapped call is lazy. A Sequence that was created and not driven
\* has read no credentials, built no request, sent nothing and holds no
\* guard; the identifier and access token of its original request are read
\* from the cell under one read guard when it is driven, so a Sequence
\* created before a refresh and driven after it sends the refreshed ones.
C37_WrappedCallLazy ==
    \A w \in Calls :
        /\ wpc[w] = "created" =>
              /\ wdata[w] = NoData
              /\ wtmp[w] = NoTmp
              /\ wsent[w] = <<>>
              /\ w \notin GuardHolders(CellOf(w))
        /\ wpc[w] = "build_token" =>
              /\ w \in readers[CellOf(w)]
              /\ writer[CellOf(w)] = NoOne
              /\ wsent[w] = <<>>
              /\ wdata[w].headers.uid = user_auth[CellOf(w)].uid
        /\ wpc[w] = "sent" =>
              /\ wsent[w] = <<Sent("original", wdata[w])>>
              /\ Untorn(wsent[w][1])

\* Call 1 was created first of all; another call has since refreshed the
\* credentials, and the original request of call 1 carries the refreshed
\* identifier and access token.
C37_Witness ==
    /\ wpc[1] = "sent"
    /\ user_auth[CellOf(1)] = Cred(1)
    /\ wsent[1][1].data.headers =
          [uid |-> Cred(1).uid, authorization |-> <<"Bearer", Cred(1).access_token>>]

----------------------------------------------------------------------------
(* Termination (checked under SpecLive) *)

\* Every Sequence that was created has ended: no call and no login attempt
\* is under way.
Settled ==
    /\ \A w \in Calls : wpc[w] \in {"idle", "done"}
    /\ lpc \in {"INIT"} \cup LoginTerminal

\* C38: provided every transport call returns, every wrapped call ends
\* after at most three transport calls (original, at most one refresh, at
\* most one retry) and every login attempt after at most two (auth-info,
\* then proof submission); each ends with one outcome, which never changes.
\* Ending is: from some point on every Sequence that was created has ended.
C38_Termination ==
    /\ [](\A w \in Calls :
            /\ Len(wsent[w]) <= 3
            /\ Len(wresp[w]) <= Len(wsent[w])
            /\ wpc[w] = "done" <=> wresult[w] # NoResult)
    /\ [](/\ Len(lsent) <= 2
          /\ Len(lresp) <= Len(lsent)
          /\ lpc \in LoginTerminal <=> loutcome # NoOutcome)
    /\ [][/\ \A w \in Calls : wpc[w] = "done" => UNCHANGED <<wpc[w], wresult[w], wsent[w]>>
          /\ lpc \in LoginTerminal => UNCHANGED <<lpc, loutcome, lsent>>]_pcs
    /\ <>[]Settled

\* Every call has ended after three transport calls, or a login attempt has
\* ended after two.
C38_Witness ==
    \/ \A w \in Calls : wpc[w] = "done" /\ Len(wresp[w]) = 3
    \/ lpc \in LoginTerminal /\ Len(lresp) = 2

----------------------------------------------------------------------------
(* Session::logout (checked under SpecLogout) *)

\* The uid and access token headers of call v's original request are those
\* of the credentials auth.
Attaches(v, auth) ==
    wsent[v][1].data.headers =
        [uid |-> auth.uid, authorization |-> <<"Bearer", auth.access_token>>]

\* C39: logout is an ordinary wrapped call. Whatever its result, the cell
\* is never cleared: it always holds a triple the server issued. A logout
\* that ended without a refresh left the cell as it was, so the calls made
\* afterwards attach the same identifier and access token as before; a
\* logout whose own 401 led to a refresh left the refreshed triple, which
\* those calls attach.
C39_LogoutKeepsCredentials ==
    /\ \A c \in Cells : \E k \in 0..(nextCred - 1) : user_auth[c] = Cred(k)
    /\ IsLogout(wdesc[1]) /\ wpc[1] = "done" =>
          LET before   == Cred(0)
              left     == IF RefreshSucceeded(1) THEN RefreshedBy(1) ELSE before
              later    == Calls \ {1}
              noLater  == \A u \in later : ~RefreshSucceeded(u)
          IN  /\ Attaches(1, before)
              /\ noLater => \A c \in Cells : user_auth[c] = left
              /\ \A v \in later :
                    (Len(wsent[v]) >= 1 /\ noLater) => Attaches(v, left)

\* logout has returned success without a refresh, and a call made
\* afterwards has sent its original request.
C39_Witness ==
    /\ IsLogout(wdesc[1])
    /\ wpc[1] = "done"
    /\ wresult[1] = Ok("unit")
    /\ Len(wsent[1]) = 1
    /\ \E v \in Calls \ {1} : wpc[v] = "sent" /\ Attaches(v, Cred(0))

----------------------------------------------------------------------------
(* Correlation of the two requests of a login attempt (checked under
   SpecLogin) *)

\* The proofs the SRP engine yields for the password given to login and the
\* challenge data of the attempt's auth-info response.
ProofsOfAttempt ==
    GenerateProofs(SRPAuthWithPgp(lstate.password, lresp[1].val.challenge).val).val

\* C33: the proof-submission request of a login attempt carries the username
\* and human-verification payload given to login, the SRP session id of the
\* attempt's own auth-info response and the client proof computed from that
\* response; the attempt succeeds only if the server proof equals the one
\* expected from that same response, and fails with ServerProof otherwise.
C33_LoginCorrelation ==
    Len(lsent) = 2 =>
       /\ lresp[1].ok
       /\ lsent[1].username = lstate.username
       /\ lsent[2].username = lstate.username
       /\ lsent[2].hv = lstate.hv
       /\ lsent[2].srp_session = lresp[1].val.srp_session
       /\ lsent[2].client_proof = ProofsOfAttempt.client_proof
       /\ lsrp.proof = ProofsOfAttempt
       /\ (Len(lresp) = 2 /\ lresp[2].ok) =>
             IF lresp[2].val.server_proof = ProofsOfAttempt.expected_server_proof
             THEN loutcome.ok \/ loutcome.val.le = "Unsupported2FA"
             ELSE loutcome = Err(LoginErrorServerProof)

\* An attempt for bob with a human-verification payload, whose auth-info
\* response carried the second session id and the second challenge, ended
\* in success.
C33_Witness ==
    /\ Len(lresp) = 2
    /\ loutcome.ok
    /\ lstate.username = "bob"
    /\ lstate.hv = "hvdata"
    /\ lresp[1].val.srp_session = "srp2"
    /\ lresp[1].val.challenge = "ch2"

----------------------------------------------------------------------------
(* The message filter and the list-messages request (checked under
   SpecPure) *)

\* C32: with_page_size(n) sets the page size to the smaller of n and 150,
\* so the page size of the result is never above 150, and leaves the six
\* other fields of the filter as they were.
C32_PageSizeClamped ==
    (pdone /\ pin.fn = "with_page_size") =>
        /\ IsSome(pout.filter.page_size)
        /\ Unwrap(pout.filter.page_size) = (IF pin.size < 150 THEN pin.size ELSE 150)
        /\ Unwrap(pout.filter.page_size) <= 150
        /\ pout.filter.label_id = pin.self.label_id
        /\ pout.filter.page = pin.self.page
        /\ pout.filter.desc = pin.self.desc
        /\ pout.filter.end_id = pin.self.end_id
        /\ pout.filter.subject = pin.self.subject
        /\ pout.filter.address_id = pin.self.address_id

\* A filter with every field set and a page size of 200 was given the
\* largest size, and carries 150.
C32_Witness ==
    /\ pdone /\ pin.fn = "with_page_size"
    /\ pin.size = 2147483647
    /\ pin.self.page_size = Some(200)
    /\ IsSome(pin.self.label_id) /\ IsSome(pin.self.page) /\ IsSome(pin.self.desc)
    /\ IsSome(pin.self.end_id) /\ IsSome(pin.self.subject) /\ IsSome(pin.self.address_id)
    /\ pout.filter.page_size = Some(150)

\* The query parameter of a field: none when the field is not set.
ParamOf(opt, text) == IF IsSome(opt) THEN <<text>> ELSE <<>>

\* The query parameters of a filter in the order LabelID, Page, PageSize,
\* EndID, Desc.
ParamsInOrder(f) ==
    ParamOf(f.label_id, <<"LabelID=">> \o (IF IsSome(f.label_id) THEN f.label_id[1] ELSE <<>>))
    \o ParamOf(f.page, <<"Page=">> \o (IF IsSome(f.page) THEN U32Display(f.page[1]) ELSE <<>>))
    \o ParamOf(f.page_size,
               <<"PageSize=">> \o (IF IsSome(f.page_size) THEN U32Display(f.page_size[1]) ELSE <<>>))
    \o ParamOf(f.end_id, <<"EndID=">> \o (IF IsSome(f.end_id) THEN f.end_id[1] ELSE <<>>))
    \o ParamOf(f.desc, <<"Desc=1">>)

====
